---- MODULE Spec2Model ----
(***************************************************************************)
(* Zoho CRM -> Airtable sync (sync_zoho_to_airtable.py).                   *)
(*                                                                         *)
(* Four specifications share this module:                                  *)
(*   SpecMap       AirtableClient.map_zoho_type_to_airtable                *)
(*   SpecConvert   convert_zoho_to_airtable                                *)
(*   SpecReconcile AirtableClient.ensure_fields_exist, run twice           *)
(*   Spec          main / sync_module / sync_module_recursive              *)
(*   SpecSyncModule  one call of sync_module, as main's loop makes it      *)
(*                                                                         *)
(* Python values are records of one shape (Blank), told apart by tag.      *)
(* Python strings are sequences of one-character strings, so that lower(), *)
(* startswith() and join() are computed character by character.            *)
(***************************************************************************)
EXTENDS Integers, Sequences, FiniteSets, TLC

VARIABLES
    \* map_zoho_type_to_airtable
    zoho_field, field_config, map_pc,
    \* convert_zoho_to_airtable
    zoho_records, field_type_map, module_name, airtable_records, conv_pc,
    \* ensure_fields_exist and the destination table it reconciles
    table_fields, field_definitions, fields_to_create, create_i, run, rec_pc,
    create_requests, requests_ok, create_log,
    \* batch_create_records on the table reconciled
    records, batch_data,
    \* main, sync_module, sync_module_recursive and the calls they make
    main_pc, modules, modules_to_sync, clear, module_i, total_synced, synced,
    synced_modules, tables, has_field_definitions, page, all_records, unmapped,
    batch_start, created_records, batch_log, exit_path,
    auth_failed, after_auth_failure, sync_runs,
    \* the requests and delays of the current run of sync_module_recursive,
    \* the pages it fetched, the records it created, and AirtableClient.id_mapping
    calls, pages, created, id_mapping

mapVars == <<zoho_field, field_config, map_pc>>
convVars == <<zoho_records, field_type_map, module_name, airtable_records, conv_pc>>
recVars == <<table_fields, field_definitions, fields_to_create, create_i, run, rec_pc,
             create_requests, requests_ok, create_log, records, batch_data>>
mainVars == <<main_pc, modules, modules_to_sync, clear, module_i, total_synced, synced,
              synced_modules, tables, has_field_definitions, page, all_records, unmapped,
              batch_start, created_records, batch_log, exit_path,
              auth_failed, after_auth_failure, sync_runs,
              calls, pages, created, id_mapping>>
vars == <<mapVars, convVars, recVars, mainVars>>
\* what the actions of one specification leave alone
notMapVars == <<convVars, recVars, mainVars>>
notConvVars == <<mapVars, recVars, mainVars>>
notRecVars == <<mapVars, convVars, mainVars>>
notMainVars == <<mapVars, convVars, recVars>>

----------------------------------------------------------------------------
(* Python values *)

Blank == [tag |-> "null", b |-> FALSE, n |-> 0, e |-> 0, s |-> <<>>, keys |-> <<>>, kids |-> <<>>]
Null == Blank
Bool(x) == [Blank EXCEPT !.tag = "bool", !.b = x]
IntV(k) == [Blank EXCEPT !.tag = "int", !.n = k]
\* the float m * 10^x
FloatV(m, x) == [Blank EXCEPT !.tag = "float", !.n = m, !.e = x]
Str(cs) == [Blank EXCEPT !.tag = "str", !.s = cs]
\* a dict with keys ks (in insertion order) and values vs
Dict(ks, vs) == [Blank EXCEPT !.tag = "dict", !.keys = ks, !.kids = vs]
List(vs) == [Blank EXCEPT !.tag = "list", !.kids = vs]

\* k in d
Has(d, k) == \E i \in 1..Len(d.keys) : d.keys[i] = k
\* d.get(k, default)
Get(d, k, default) ==
    IF Has(d, k) THEN d.kids[CHOOSE i \in 1..Len(d.keys) : d.keys[i] = k] ELSE default
\* bool(v)
Truthy(v) ==
    CASE v.tag = "null" -> FALSE
      [] v.tag = "bool" -> v.b
      [] v.tag \in {"int", "float"} -> v.n # 0
      [] v.tag = "str" -> v.s # <<>>
      [] v.tag = "dict" -> v.keys # <<>>
      [] OTHER -> v.kids # <<>>
\* a or b
PyOr(a, b) == IF Truthy(a) THEN a ELSE b

UpperCaseLetters ==
    <<"A", "B", "C", "D", "E", "F", "G", "H", "I", "J", "K", "L", "M",
      "N", "O", "P", "Q", "R", "S", "T", "U", "V", "W", "X", "Y", "Z">>
LowerCaseLetters ==
    <<"a", "b", "c", "d", "e", "f", "g", "h", "i", "j", "k", "l", "m",
      "n", "o", "p", "q", "r", "s", "t", "u", "v", "w", "x", "y", "z">>
LowerChar(c) ==
    IF \E i \in 1..26 : UpperCaseLetters[i] = c
    THEN LowerCaseLetters[CHOOSE i \in 1..26 : UpperCaseLetters[i] = c]
    ELSE c
\* str.lower() of the character sequence cs that is not lower-cased
LowerUnchanged(cs) == cs
\* str.lower()
Lower(cs) == [i \in 1..Len(cs) |-> LowerChar(cs[i])]

S_text == <<"t", "e", "x", "t">>
S_textarea == <<"t", "e", "x", "t", "a", "r", "e", "a">>
S_email == <<"e", "m", "a", "i", "l">>
S_phone == <<"p", "h", "o", "n", "e">>
S_website == <<"w", "e", "b", "s", "i", "t", "e">>
S_picklist == <<"p", "i", "c", "k", "l", "i", "s", "t">>
S_multiselectpicklist == <<"m", "u", "l", "t", "i", "s", "e", "l", "e", "c", "t", "p", "i", "c", "k", "l", "i", "s", "t">>
S_boolean == <<"b", "o", "o", "l", "e", "a", "n">>
S_integer == <<"i", "n", "t", "e", "g", "e", "r">>
S_bigint == <<"b", "i", "g", "i", "n", "t">>
S_double == <<"d", "o", "u", "b", "l", "e">>
S_currency == <<"c", "u", "r", "r", "e", "n", "c", "y">>
S_date == <<"d", "a", "t", "e">>
S_datetime == <<"d", "a", "t", "e", "t", "i", "m", "e">>
S_lookup == <<"l", "o", "o", "k", "u", "p">>
S_ownerlookup == <<"o", "w", "n", "e", "r", "l", "o", "o", "k", "u", "p">>
S_userlookup == <<"u", "s", "e", "r", "l", "o", "o", "k", "u", "p">>
S_fileupload == <<"f", "i", "l", "e", "u", "p", "l", "o", "a", "d">>
S_profileimage == <<"p", "r", "o", "f", "i", "l", "e", "i", "m", "a", "g", "e">>
S_iso == <<"i", "s", "o">>
S_ymd == <<"Y", "Y", "Y", "Y", "-", "M", "M", "-", "D", "D">>
S_hour24 == <<"2", "4", "h", "o", "u", "r">>
S_hhmm == <<"H", "H", ":", "m", "m">>
S_utc == <<"u", "t", "c">>
S_None == <<"N", "o", "n", "e">>

----------------------------------------------------------------------------
(* AirtableClient.map_zoho_type_to_airtable *)

\* the dict type_mapping, as type_mapping.get(k, 'singleLineText')
type_mapping(k) ==
    CASE k = S_text -> "singleLineText"
      [] k = S_textarea -> "multilineText"
      [] k = S_email -> "email"
      [] k = S_phone -> "phoneNumber"
      [] k = S_website -> "url"
      [] k = S_picklist -> "singleSelect"
      [] k = S_multiselectpicklist -> "multipleSelects"
      [] k = S_boolean -> "singleLineText"
      [] k = S_integer -> "number"
      [] k = S_bigint -> "number"
      [] k = S_double -> "number"
      [] k = S_currency -> "currency"
      [] k = S_date -> "date"
      [] k = S_datetime -> "dateTime"
      [] k = S_lookup -> "singleLineText"
      [] k = S_ownerlookup -> "singleLineText"
      [] k = S_userlookup -> "singleLineText"
      [] k = S_fileupload -> "multilineText"
      [] k = S_profileimage -> "multilineText"
      [] OTHER -> "singleLineText"

\* a field config {'type': t} without options
ConfigOf(t) == [type |-> t, has_options |-> FALSE, options |-> Null]
\* a field config {'type': t, 'options': o}
ConfigWith(t, o) == [type |-> t, has_options |-> TRUE, options |-> o]

\* the choices one entry of pick_list_values appends (none or one)
ChoiceOf(item) ==
    IF item.tag = "dict"
    THEN LET value == PyOr(Get(item, "display_value", Null), Get(item, "actual_value", Null))
         IN  IF Truthy(value) THEN <<Dict(<<"name">>, <<value>>)>> ELSE <<>>
    ELSE IF item.tag = "str" THEN <<Dict(<<"name">>, <<item>>)>>
    ELSE <<>>

RECURSIVE ChoicesFrom(_)
\* the loop `for item in pick_list` over the sequence items
ChoicesFrom(items) ==
    IF items = <<>> THEN <<>>
    ELSE ChoiceOf(Head(items)) \o ChoicesFrom(Tail(items))

\* whether `for item in v` raises TypeError
NotIterable(v) == v.tag \in {"null", "bool", "int", "float"}
\* the items `for item in v` yields: a list's items, a string's characters
\* (descriptors with a dict for pick_list_values are not drawn)
ItemsOf(v) == IF v.tag = "str" THEN [i \in 1..Len(v.s) |-> Str(<<v.s[i]>>)] ELSE v.kids

\* the choices found, without the default choice for an empty result
SelectChoicesNoDefault(field) ==
    IF Has(field, "pick_list_values")
    THEN ChoicesFrom(ItemsOf(Get(field, "pick_list_values", Null)))
    ELSE <<>>
\* the choices of a singleSelect or multipleSelects field: lines 339-353, 360-374
SelectChoices(field) ==
    LET found == IF Has(field, "pick_list_values")
                 THEN ChoicesFrom(ItemsOf(Get(field, "pick_list_values", Null)))
                 ELSE <<>>
    IN  IF found = <<>> THEN <<Dict(<<"name">>, <<Str(S_None)>>)>> ELSE found

IsoDateFormat == Dict(<<"name", "format">>, <<Str(S_iso), Str(S_ymd)>>)

\* the value returned, or [raised |-> TRUE] when the call raises
map_zoho_type_to_airtable(field) ==
    LET zoho_type == Get(field, "data_type", Str(S_text))
    IN  IF zoho_type.tag # "str"
        THEN [raised |-> TRUE, config |-> ConfigOf("")]    \* zoho_type.lower()
        ELSE
        LET airtable_type == type_mapping(Lower(zoho_type.s))
        IN  CASE airtable_type = "currency" ->
                   [raised |-> FALSE,
                    config |-> ConfigWith(airtable_type,
                        Dict(<<"precision", "symbol">>, <<IntV(2), Str(<<"$">>)>>))]
              [] airtable_type = "number" ->
                   [raised |-> FALSE,
                    config |-> ConfigWith(airtable_type,
                        Dict(<<"precision">>,
                             <<IntV(IF Lower(zoho_type.s) \in {S_integer, S_bigint}
                                    THEN 0 ELSE 2)>>))]
              [] airtable_type = "date" ->
                   [raised |-> FALSE,
                    config |-> ConfigWith(airtable_type,
                        Dict(<<"dateFormat">>, <<IsoDateFormat>>))]
              [] airtable_type = "dateTime" ->
                   [raised |-> FALSE,
                    config |-> ConfigWith(airtable_type,
                        Dict(<<"dateFormat", "timeFormat", "timeZone">>,
                             <<IsoDateFormat,
                               Dict(<<"name", "format">>, <<Str(S_hour24), Str(S_hhmm)>>),
                               Str(S_utc)>>))]
              [] airtable_type \in {"singleSelect", "multipleSelects"} ->
                   IF Has(field, "pick_list_values")
                      /\ NotIterable(Get(field, "pick_list_values", Null))
                   THEN [raised |-> TRUE, config |-> ConfigOf("")]
                   ELSE [raised |-> FALSE,
                         config |-> ConfigWith(airtable_type,
                             Dict(<<"choices">>, <<List(SelectChoices(field))>>))]
              [] OTHER -> [raised |-> FALSE, config |-> ConfigOf(airtable_type)]

----------------------------------------------------------------------------
(* str(), int() and float() on Python values *)

DigitChars == <<"0", "1", "2", "3", "4", "5", "6", "7", "8", "9">>
IsDigit(c) == \E i \in 1..10 : DigitChars[i] = c
DigitVal(c) == (CHOOSE i \in 1..10 : DigitChars[i] = c) - 1

RECURSIVE Pow10(_)
Pow10(k) == IF k <= 0 THEN 1 ELSE 10 * Pow10(k - 1)

RECURSIVE DigitsOf(_)
\* the decimal digits of the natural number k
DigitsOf(k) == IF k < 10 THEN <<DigitChars[k + 1]>> ELSE DigitsOf(k \div 10) \o <<DigitChars[(k % 10) + 1]>>

\* str(k) of an int
IntStr(k) == IF k < 0 THEN <<"-">> \o DigitsOf(-k) ELSE DigitsOf(k)

RECURSIVE PadZeros(_, _)
\* cs left-padded with zeros to width w
PadZeros(cs, w) == IF Len(cs) >= w THEN cs ELSE PadZeros(<<"0">> \o cs, w)

\* str(f) of the float m * 10^x, -16 < x <= 0, whose repr has no exponent
FloatStr(m, x) ==
    LET a == IF m < 0 THEN -m ELSE m
        sign == IF m < 0 THEN <<"-">> ELSE <<>>
    IN  IF x >= 0 THEN sign \o DigitsOf(a * Pow10(x)) \o <<".", "0">>
        ELSE sign \o DigitsOf(a \div Pow10(-x)) \o <<".">>
                  \o PadZeros(DigitsOf(a % Pow10(-x)), -x)

\* the characters of a dict key
KeyChars(k) ==
    CASE k = "name" -> <<"n", "a", "m", "e">>
      [] k = "id" -> <<"i", "d">>
      [] OTHER -> <<"k">>

RECURSIVE JoinWith(_, _)
\* sep.join(parts), parts a sequence of character sequences
JoinWith(sep, parts) ==
    IF parts = <<>> THEN <<>>
    ELSE IF Len(parts) = 1 THEN parts[1]
    ELSE parts[1] \o sep \o JoinWith(sep, Tail(parts))

CommaSpace == <<",", " ">>

RECURSIVE Repr(_)
\* repr(v): the generic string form of a value (strings drawn hold no quote
\* and no backslash, so a string's repr is the string between single quotes)
Repr(v) ==
    CASE v.tag = "null" -> S_None
      [] v.tag = "bool" -> IF v.b THEN <<"T", "r", "u", "e">> ELSE <<"F", "a", "l", "s", "e">>
      [] v.tag = "int" -> IntStr(v.n)
      [] v.tag = "float" -> FloatStr(v.n, v.e)
      [] v.tag = "str" -> <<"'">> \o v.s \o <<"'">>
      [] v.tag = "dict" ->
            <<"{">> \o JoinWith(CommaSpace,
                         [i \in 1..Len(v.keys) |->
                            <<"'">> \o KeyChars(v.keys[i]) \o <<"'", ":", " ">> \o Repr(v.kids[i])])
                    \o <<"}">>
      [] OTHER ->
            <<"[">> \o JoinWith(CommaSpace, [i \in 1..Len(v.kids) |-> Repr(v.kids[i])]) \o <<"]">>

\* str(v)
PyStr(v) == IF v.tag = "str" THEN v.s ELSE Repr(v)

Contains(cs, c) == \E i \in 1..Len(cs) : cs[i] = c

RECURSIVE StripLeft(_)
StripLeft(cs) == IF cs # <<>> /\ Head(cs) = " " THEN StripLeft(Tail(cs)) ELSE cs
RECURSIVE StripRight(_)
StripRight(cs) ==
    IF cs # <<>> /\ cs[Len(cs)] = " " THEN StripRight(SubSeq(cs, 1, Len(cs) - 1)) ELSE cs
\* surrounding blanks, which int() and float() ignore
Strip(cs) == StripRight(StripLeft(cs))

\* a digit group of a numeral: digits, single underscores between them
IsDigitGroup(cs) ==
    /\ cs # <<>>
    /\ IsDigit(cs[1]) /\ IsDigit(cs[Len(cs)])
    /\ \A i \in 1..Len(cs) : IsDigit(cs[i]) \/ cs[i] = "_"
    /\ \A i \in 1..(Len(cs) - 1) : ~(cs[i] = "_" /\ cs[i + 1] = "_")

RECURSIVE GroupVal(_)
\* the number a digit group (or the empty group) denotes
GroupVal(cs) ==
    IF cs = <<>> THEN 0
    ELSE IF cs[Len(cs)] = "_" THEN GroupVal(SubSeq(cs, 1, Len(cs) - 1))
    ELSE 10 * GroupVal(SubSeq(cs, 1, Len(cs) - 1)) + DigitVal(cs[Len(cs)])

\* the digits of a digit group
GroupDigits(cs) == SelectSeq(cs, IsDigit)

HasSign(cs) == cs # <<>> /\ cs[1] \in {"+", "-"}
Unsigned(cs) == IF HasSign(cs) THEN Tail(cs) ELSE cs
SignOf(cs) == IF cs # <<>> /\ cs[1] = "-" THEN -1 ELSE 1

\* int(cs): [ok |-> FALSE] is ValueError
ParseInt(cs) ==
    LET t == Strip(cs)
    IN  IF IsDigitGroup(Unsigned(t))
        THEN [ok |-> TRUE, value |-> IntV(SignOf(t) * GroupVal(Unsigned(t)))]
        ELSE [ok |-> FALSE, value |-> Null]

RECURSIVE Normalized(_, _)
\* m * 10^x with the trailing zeros of m moved into the exponent, up to x = 0
Normalized(m, x) ==
    IF m = 0 THEN FloatV(0, 0)
    ELSE IF x < 0 /\ m % 10 = 0 THEN Normalized(m \div 10, x + 1)
    ELSE IF x > 0 THEN Normalized(m * 10, x - 1)
    ELSE FloatV(m, x)

\* the first position of a character of cset in cs, 0 if none
FirstOf(cs, cset) ==
    IF \E i \in 1..Len(cs) : cs[i] \in cset
    THEN CHOOSE i \in 1..Len(cs) : cs[i] \in cset /\ \A j \in 1..(i - 1) : cs[j] \notin cset
    ELSE 0

\* float(cs) of a numeral with a '.' or an exponent marker (the only strings
\* the converter hands to float()): [ok |-> FALSE] is ValueError.  Numerals
\* drawn stay within the range and precision of a double.
ParseFloat(cs) ==
    LET t == Strip(cs)
        u == Unsigned(t)
        ePos == FirstOf(u, {"e", "E"})
        mant == IF ePos = 0 THEN u ELSE SubSeq(u, 1, ePos - 1)
        expo == IF ePos = 0 THEN <<>> ELSE SubSeq(u, ePos + 1, Len(u))
        dot == FirstOf(mant, {"."})
        whole == IF dot = 0 THEN mant ELSE SubSeq(mant, 1, dot - 1)
        frac == IF dot = 0 THEN <<>> ELSE SubSeq(mant, dot + 1, Len(mant))
        mantOk == /\ whole = <<>> \/ IsDigitGroup(whole)
                  /\ frac = <<>> \/ IsDigitGroup(frac)
                  /\ whole # <<>> \/ frac # <<>>
        expoOk == ePos = 0 \/ IsDigitGroup(Unsigned(expo))
        fracLen == Len(GroupDigits(frac))
        m == GroupVal(whole) * Pow10(fracLen) + GroupVal(frac)
        x == (IF ePos = 0 THEN 0 ELSE SignOf(expo) * GroupVal(Unsigned(expo))) - fracLen
    IN  IF mantOk /\ expoOk
        THEN [ok |-> TRUE, value |-> Normalized(SignOf(t) * m, x)]
        ELSE [ok |-> FALSE, value |-> Null]

----------------------------------------------------------------------------
(* Field descriptors handed to map_zoho_type_to_airtable *)

\* the longest pick_list_values list drawn
MaxPickLen == 2

UpperChar(c) ==
    IF \E i \in 1..26 : LowerCaseLetters[i] = c
    THEN UpperCaseLetters[CHOOSE i \in 1..26 : LowerCaseLetters[i] = c]
    ELSE c
Upper(cs) == [i \in 1..Len(cs) |-> UpperChar(cs[i])]
Capitalize(cs) == [i \in 1..Len(cs) |-> IF i = 1 THEN UpperChar(cs[i]) ELSE cs[i]]

KnownTypeNames ==
    {S_text, S_textarea, S_email, S_phone, S_website, S_picklist, S_multiselectpicklist,
     S_boolean, S_integer, S_bigint, S_double, S_currency, S_date, S_datetime, S_lookup,
     S_ownerlookup, S_userlookup, S_fileupload, S_profileimage}
UnknownTypeNames ==
    {<<>>, <<"j", "s", "o", "n">>, <<"f", "o", "r", "m", "u", "l", "a">>,
     <<"t", "e", "x", "t", "s">>, <<"d", "a", "t", "e", "_">>}
DataTypeStrings ==
    UNION {{t, Capitalize(t), Upper(t)} : t \in KnownTypeNames \cup UnknownTypeNames}

\* entries of pick_list_values: objects with a display and/or an actual value,
\* bare strings, and an entry that is neither
PickListItems ==
    {Dict(<<"display_value", "actual_value">>, <<Str(<<"A">>), Str(<<"a">>)>>),
     Dict(<<"actual_value">>, <<Str(<<"B">>)>>),
     Dict(<<"display_value", "actual_value">>, <<Null, Str(<<"A">>)>>),
     Dict(<<"display_value", "actual_value">>, <<Str(<<>>), Str(<<>>)>>),
     Dict(<<>>, <<>>),
     Str(<<"A">>),
     Str(<<>>),
     IntV(5)}
PickLists == UNION {[1..k -> PickListItems] : k \in 0..MaxPickLen}

\* a key that is absent (<<>>) or present with value v (<<v>>)
OptionalEntry(values) == {<<>>} \cup {<<v>> : v \in values}
Descriptor(dt, pl) ==
    Dict((IF dt = <<>> THEN <<>> ELSE <<"data_type">>)
           \o (IF pl = <<>> THEN <<>> ELSE <<"pick_list_values">>),
         dt \o pl)
FieldDescriptors ==
    {Descriptor(dt, pl) :
        dt \in OptionalEntry({Null} \cup {Str(t) : t \in DataTypeStrings}),
        pl \in OptionalEntry({Null} \cup {List(l) : l \in PickLists})}

NoConfig == ConfigOf("")
MapIdle == zoho_field = Dict(<<>>, <<>>) /\ field_config = NoConfig /\ map_pc = "idle"

InitMap ==
    /\ zoho_field \in FieldDescriptors
    /\ field_config = NoConfig
    /\ map_pc = "call"

\* one call of map_zoho_type_to_airtable(zoho_field)
MapZohoTypeToAirtable ==
    /\ map_pc = "call"
    /\ LET r == map_zoho_type_to_airtable(zoho_field)
       IN  /\ map_pc' = IF r.raised THEN "raised" ELSE "returned"
           /\ field_config' = r.config
    /\ UNCHANGED <<zoho_field, notMapVars>>

----------------------------------------------------------------------------
(* convert_zoho_to_airtable *)

S_Yes == <<"Y", "e", "s">>
S_No == <<"N", "o">>
S_offset == <<"o", "f", "f", "s", "e", "t">>
S_time_zone == <<"t", "i", "m", "e", "_", "z", "o", "n", "e">>
S_Microsoft == <<"M", "i", "c", "r", "o", "s", "o", "f", "t">>
S_country_locale == <<"c", "o", "u", "n", "t", "r", "y", "_", "l", "o", "c", "a", "l", "e">>

\* no module has a blacklist
blacklisted_fields_none(module) == {}
\* field_blacklists.get(module_name, set())
blacklisted_fields(module) ==
    IF module = "Users" THEN {S_offset, S_time_zone, S_Microsoft, S_country_locale} ELSE {}

RECURSIVE LStripDollar(_)
\* key.lstrip('$')
LStripDollar(key) == IF key # <<>> /\ Head(key) = "$" THEN LStripDollar(Tail(key)) ELSE key

\* clean_key: lines 748-751
CleanKey(key) == IF key # <<>> /\ Head(key) = "$" THEN LStripDollar(key) ELSE key

\* field_type_map.get(clean_key, {}).get('type', 'singleLineText')
ExpectedType(type_map, clean_key) ==
    IF clean_key \in DOMAIN type_map THEN type_map[clean_key].type ELSE "singleLineText"

Store(v) == [kind |-> "set", value |-> v]
Skip == [kind |-> "skip", value |-> Null]
Raise == [kind |-> "raise", value |-> Null]

\* the dict branch: lines 761-770
ConvertDict(value) ==
    IF Has(value, "name") THEN Store(Get(value, "name", Null))
    ELSE IF Has(value, "id") THEN Store(Str(PyStr(Get(value, "id", Str(<<>>)))))
    ELSE Store(Str(PyStr(value)))

\* the list branch: lines 771-780
ConvertList(value) ==
    LET items == value.kids
    IN  IF items = <<>> THEN Skip
        ELSE IF items[1].tag = "dict"
        THEN \* [v.get('name', str(v)) for v in value] needs every item to be a dict,
             \* ', '.join(names) needs every name to be a string
             IF \E i \in 1..Len(items) : items[i].tag # "dict" THEN Raise
             ELSE LET names == [i \in 1..Len(items) |->
                                  Get(items[i], "name", Str(PyStr(items[i])))]
                  IN  IF \E i \in 1..Len(names) : names[i].tag # "str" THEN Raise
                      ELSE Store(Str(JoinWith(CommaSpace,
                                              [i \in 1..Len(names) |-> names[i].s])))
        ELSE Store(Str(JoinWith(CommaSpace, [i \in 1..Len(items) |-> PyStr(items[i])])))

\* the number branch without the conversion to text: the number is kept
ConvertNumberKept(value, expected_type) == Store(value)
\* the number branch: lines 781-791
ConvertNumber(value, expected_type) ==
    IF expected_type \in {"number", "currency"} THEN Store(value)
    ELSE IF expected_type = "singleLineText" THEN Store(Str(PyStr(value)))
    ELSE Store(value)

\* the string branch without the numeric parse: the string is kept
ConvertStringKept(value, expected_type) == Store(value)
\* the string branch: lines 792-807
ConvertString(value, expected_type) ==
    IF expected_type \in {"number", "currency"}
    THEN LET parsed == IF Contains(value.s, ".") \/ Contains(Lower(value.s), "e")
                       THEN ParseFloat(value.s) ELSE ParseInt(value.s)
         IN  IF parsed.ok THEN Store(parsed.value) ELSE Skip
    ELSE Store(value)

\* the dispatch without its first branch: a bool is an int, and is taken by
\* the number branch
ConvertValueBoolAsNumber(value, expected_type) ==
    CASE value.tag = "dict" -> ConvertDict(value)
      [] value.tag = "list" -> ConvertList(value)
      [] value.tag \in {"bool", "int", "float"} -> ConvertNumber(value, expected_type)
      [] value.tag = "str" -> ConvertString(value, expected_type)
      [] OTHER -> Store(Str(PyStr(value)))
\* what one non-null field value becomes: lines 758-810
ConvertValue(value, expected_type) ==
    CASE value.tag = "bool" -> Store(Str(IF value.b THEN S_Yes ELSE S_No))
      [] value.tag = "dict" -> ConvertDict(value)
      [] value.tag = "list" -> ConvertList(value)
      [] value.tag \in {"int", "float"} -> ConvertNumber(value, expected_type)
      [] value.tag = "str" -> ConvertString(value, expected_type)
      [] OTHER -> Store(Str(PyStr(value)))

\* fields[key] = value that leaves a key already set as it is
PutFieldFirstWins(fields, key, value) ==
    IF \E i \in 1..Len(fields) : fields[i][1] = key THEN fields
    ELSE Append(fields, <<key, value>>)
\* fields[key] = value on the ordered dict fields (a sequence of <<key, value>>)
PutField(fields, key, value) ==
    IF \E i \in 1..Len(fields) : fields[i][1] = key
    THEN [i \in 1..Len(fields) |-> IF fields[i][1] = key THEN <<key, value>> ELSE fields[i]]
    ELSE Append(fields, <<key, value>>)

\* no value is taken for None
IsNoneNever(value) == FALSE
\* value is None
IsNone(value) == value.tag = "null"
RECURSIVE ConvertFields(_, _, _, _)
\* the loop `for key, value in record.items()` over the entries left, from the
\* fields built so far
ConvertFields(entries, fields, type_map, module) ==
    IF entries = <<>> THEN [raised |-> FALSE, fields |-> fields]
    ELSE
    LET key == entries[1][1]
        value == entries[1][2]
        rest == Tail(entries)
    IN  IF key \in blacklisted_fields(module) THEN ConvertFields(rest, fields, type_map, module)
        ELSE IF IsNone(value) THEN ConvertFields(rest, fields, type_map, module)
        ELSE
        LET clean_key == CleanKey(key)
            r == ConvertValue(value, ExpectedType(type_map, clean_key))
        IN  CASE r.kind = "raise" -> [raised |-> TRUE, fields |-> fields]
              [] r.kind = "skip" -> ConvertFields(rest, fields, type_map, module)
              [] OTHER -> ConvertFields(rest, PutField(fields, clean_key, r.value),
                                        type_map, module)

\* one record's conversion: lines 732-812
ConvertRecord(record, type_map, module) == ConvertFields(record, <<>>, type_map, module)

----------------------------------------------------------------------------
(* Inputs of convert_zoho_to_airtable *)

\* the longest list of raw records drawn
MaxRecords == 2

K_Amount == <<"A", "m", "o", "u", "n", "t">>
K_DollarAmount == <<"$">> \o K_Amount
RecordKeys ==
    {K_Amount, K_DollarAmount, S_offset, S_time_zone, S_Microsoft, S_country_locale}

D_A == Dict(<<"name", "id">>, <<Str(<<"A">>), IntV(1)>>)
D_B == Dict(<<"name">>, <<Str(<<"B">>)>>)
D_IdOnly == Dict(<<"id">>, <<IntV(7)>>)
D_Neither == Dict(<<"k">>, <<IntV(0)>>)
D_NameNull == Dict(<<"name", "id">>, <<Null, IntV(1)>>)

ScalarValues ==
    {Null, Bool(TRUE), Bool(FALSE), IntV(42), IntV(-3), FloatV(425, -1),
     Str(<<"4", "2", ".", "5">>), Str(<<"1", "2">>), Str(<<"a", "b", "c">>),
     Str(<<"1", "e", "2">>), Str(<<>>),
     Str(<<"1", "E", "2">>), Str(<<"-", "3">>), Str(<<".", "5">>), Str(<<"i", "n", "f">>),
     Str(<<"e">>), Str(<<" ", "7">>)}
ObjectValues ==
    {D_A, D_IdOnly, D_Neither, Dict(<<>>, <<>>), D_NameNull,
     Dict(<<"name">>, <<Bool(TRUE)>>),
     Dict(<<"name">>, <<List(<<Str(<<"A">>)>>)>>),
     Dict(<<"name">>, <<D_B>>),
     Dict(<<"name">>, <<IntV(5)>>)}
ListValues ==
    {List(<<>>), List(<<D_A>>), List(<<D_A, D_B>>), List(<<D_B, D_A>>),
     List(<<D_A, D_IdOnly>>),
     List(<<D_A, Str(<<"x">>)>>), List(<<Str(<<"x">>), D_A>>),
     List(<<Str(<<"x">>), Str(<<"y">>)>>), List(<<IntV(1), Bool(TRUE), Null>>),
     List(<<D_NameNull>>), List(<<D_B, D_NameNull>>)}
FieldValues == ScalarValues \cup ObjectValues \cup ListValues

\* values of the records that hold two fields
FewValues == {Null, Bool(TRUE), IntV(42), Str(<<"1", "2">>), List(<<>>), D_NameNull}

OneFieldRecords == {<<<<k, v>>>> : k \in RecordKeys, v \in FieldValues}
TwoFieldRecords ==
    {<<<<k[1], v1>>, <<k[2], v2>>>> :
        k \in {<<K_Amount, K_DollarAmount>>, <<K_DollarAmount, K_Amount>>,
               <<S_offset, K_Amount>>, <<S_offset, <<"$">> \o S_offset>>},
        v1 \in FewValues, v2 \in FewValues}
FewRecords ==
    {<<>>,
     <<<<K_Amount, Str(<<"1", "2">>)>>>>,
     <<<<K_DollarAmount, Bool(FALSE)>>, <<K_Amount, Null>>>>,
     <<<<K_Amount, List(<<D_A, Str(<<"x">>)>>)>>>>}

\* the record of the end-to-end scenario, and its type map
K_Account_Name == <<"A", "c", "c", "o", "u", "n", "t", "_", "N", "a", "m", "e">>
K_Annual_Revenue == <<"A", "n", "n", "u", "a", "l", "_", "R", "e", "v", "e", "n", "u", "e">>
K_locked_for_me == <<"l", "o", "c", "k", "e", "d", "_", "f", "o", "r", "_", "m", "e">>
S_Acme == <<"A", "c", "m", "e">>
ScenarioRecord ==
    <<<<K_Account_Name, Str(S_Acme)>>,
      <<K_Annual_Revenue, Str(<<"1", "0", "0", "0", "0", "0", "0">>)>>,
      <<<<"$">> \o K_locked_for_me, Bool(TRUE)>>>>
ScenarioTypeMap ==
    [k \in {K_Account_Name, K_Annual_Revenue} |->
        IF k = K_Account_Name THEN ConfigOf("singleLineText")
        ELSE ConfigWith("currency",
                        Dict(<<"precision", "symbol">>, <<IntV(2), Str(<<"$">>)>>))]

EmptyTypeMap == [k \in {} |-> ConfigOf("")]
TypeMaps ==
    {EmptyTypeMap}
      \cup {[k \in {K_Amount} |-> ConfigOf(t)] :
              t \in {"number", "currency", "singleLineText", "date"}}

\* the calls drawn: every one-field record under every type map and module,
\* records whose two keys collide, and lists of up to MaxRecords records
ConvertCalls ==
    {[records |-> <<r>>, type_map |-> m, module |-> mod] :
        r \in OneFieldRecords, m \in TypeMaps, mod \in {"Users", "Accounts"}}
    \cup {[records |-> <<r>>, type_map |-> m, module |-> mod] :
            r \in TwoFieldRecords, m \in TypeMaps, mod \in {"Users", "Accounts"}}
    \cup {[records |-> <<ScenarioRecord>> \o rs, type_map |-> ScenarioTypeMap,
            module |-> "Accounts"] :
            rs \in {<<>>, <<<<<<K_DollarAmount, Bool(TRUE)>>, <<K_Amount, IntV(42)>>>>>>}}
    \cup {[records |-> rs, type_map |-> [k \in {K_Amount} |-> ConfigOf("number")],
           module |-> "Users"] :
            rs \in UNION {[1..k -> FewRecords] : k \in 0..MaxRecords}}

ConvIdle ==
    /\ zoho_records = <<>> /\ field_type_map = EmptyTypeMap /\ module_name = ""
    /\ airtable_records = <<>> /\ conv_pc = "idle"

InitConvert ==
    /\ \E c \in ConvertCalls :
          /\ zoho_records = c.records
          /\ field_type_map = c.type_map
          /\ module_name = c.module
    /\ airtable_records = <<>>
    /\ conv_pc = "loop"

\* one iteration of `for record in zoho_records`; an exception leaves the function
ConvertNextRecord ==
    /\ conv_pc = "loop"
    /\ Len(airtable_records) < Len(zoho_records)
    /\ LET r == ConvertRecord(zoho_records[Len(airtable_records) + 1],
                              field_type_map, module_name)
       IN  IF r.raised
           THEN conv_pc' = "raised" /\ UNCHANGED airtable_records
           ELSE airtable_records' = Append(airtable_records, r.fields)
                /\ UNCHANGED conv_pc
    /\ UNCHANGED <<zoho_records, field_type_map, module_name, notConvVars>>

\* return airtable_records
ConvertReturn ==
    /\ conv_pc = "loop"
    /\ Len(airtable_records) = Len(zoho_records)
    /\ conv_pc' = "returned"
    /\ UNCHANGED <<zoho_records, field_type_map, module_name, airtable_records, notConvVars>>

----------------------------------------------------------------------------
(* AirtableClient.ensure_fields_exist and create_field_if_not_exists *)

\* field_name in existing_fields, exactly
FieldExistsExactOnly(field_name, existing_fields) == field_name \in existing_fields
\* no field is ever found
FieldExistsNever(field_name, existing_fields) == FALSE
\* the two checks of create_field_if_not_exists: an exact match, or a match of
\* the lower-cased names
FieldExists(field_name, existing_fields) ==
    \/ field_name \in existing_fields
    \/ Lower(field_name) \in {Lower(fname) : fname \in existing_fields}

\* the loop of ensure_fields_exist that keeps the truly new fields, in the
\* order of field_definitions
FieldsToCreate(definitions, existing_fields) ==
    LET existing_fields_lower == {Lower(f) : f \in existing_fields}
        IsNew(field_name) ==
            /\ field_name \notin existing_fields
            /\ Lower(field_name) \notin existing_fields_lower
    IN  SelectSeq(definitions, IsNew)

\* the most field definitions drawn
MaxDesired == 2

N_Id == <<"I", "d">>
N_id == <<"i", "d">>
N_ID == <<"I", "D">>
N_No == <<"N", "o">>
N_no == <<"n", "o">>
FieldNames == {N_Id, N_id, N_ID, N_No, N_no}

\* tables hold no two field names equal ignoring case
StartingTables ==
    {t \in SUBSET FieldNames : \A f, g \in t : Lower(f) = Lower(g) => f = g}
\* the keys of a dict are distinct
DesiredSets ==
    {d \in UNION {[1..k -> FieldNames] : k \in 0..MaxDesired} :
        \A i, j \in 1..Len(d) : i # j => d[i] # d[j]}

RecIdle ==
    /\ table_fields = {} /\ field_definitions = <<>> /\ fields_to_create = <<>>
    /\ create_i = 0 /\ run = 0 /\ rec_pc = "idle"
    /\ create_requests = <<>> /\ requests_ok = TRUE
    /\ create_log = <<>> /\ records = <<>> /\ batch_data = <<>>

InitReconcile ==
    /\ table_fields \in StartingTables
    /\ field_definitions \in DesiredSets
    /\ fields_to_create = <<>>
    /\ create_i = 0
    /\ run = 1
    /\ rec_pc = "start"
    /\ create_requests = <<>>
    /\ requests_ok = TRUE
    /\ create_log = <<>>
    /\ records = <<>>
    /\ batch_data = <<>>

\* ensure_fields_exist up to its loop of creations: the table's fields are read
\* once (an unreadable schema reads as no field) and the new fields are kept
EnsureFieldsExist ==
    /\ rec_pc = "start"
    /\ \E schema_read \in BOOLEAN :
          LET existing_fields == IF schema_read THEN table_fields ELSE {}
              new == FieldsToCreate(field_definitions, existing_fields)
          IN  /\ fields_to_create' = new
              /\ create_i' = 1
              /\ rec_pc' = IF new = <<>> THEN "done" ELSE "create"
              /\ requests_ok' = (requests_ok /\ (schema_read \/ run # 1))
    /\ UNCHANGED <<table_fields, field_definitions, run, create_requests, create_log,
                   records, batch_data, notRecVars>>

\* every outcome is reported as a failure
CreateFieldFails(outcome) == FALSE
\* what create_field_if_not_exists returns: True when the field exists, was
\* created, or was refused as a duplicate or empty name; False when the schema
\* is unreadable, the request is refused for another reason, or an exception
\* is caught
CreateFieldReturns(outcome) ==
    outcome \in {"exists", "created", "DUPLICATE_OR_EMPTY_FIELD_NAME"}

\* one iteration of the creation loop: create_field_if_not_exists reads the
\* table, returns if the read fails or the field exists, and else posts the
\* field, which the destination creates, rejects as a duplicate, rejects for
\* another reason, or fails to answer
CreateFieldIfNotExists ==
    /\ rec_pc = "create"
    /\ create_i <= Len(fields_to_create)
    /\ \E schema_read \in BOOLEAN,
          response \in {"created", "DUPLICATE_OR_EMPTY_FIELD_NAME", "rejected", "exception"} :
          LET field_name == fields_to_create[create_i]
              outcome == IF ~schema_read THEN "unreadable"
                         ELSE IF FieldExists(field_name, table_fields) THEN "exists"
                         ELSE response
          IN  /\ create_log' = Append(create_log,
                                      [run |-> run, name |-> field_name, outcome |-> outcome,
                                       returned |-> CreateFieldReturns(outcome)])
              /\ IF ~schema_read
                 THEN /\ requests_ok' = (requests_ok /\ run # 1)
                      /\ UNCHANGED <<table_fields, create_requests>>
                 ELSE IF FieldExists(field_name, table_fields)
                 THEN UNCHANGED <<table_fields, create_requests, requests_ok>>
                 ELSE /\ create_requests' =
                           Append(create_requests,
                                  [run |-> run, name |-> field_name,
                                   table |-> table_fields, response |-> response])
                      /\ table_fields' = IF response = "created"
                                         THEN table_fields \cup {field_name}
                                         ELSE table_fields
                      /\ requests_ok' =
                           (requests_ok /\ (response = "created" \/ run # 1))
    /\ create_i' = create_i + 1
    /\ UNCHANGED <<field_definitions, fields_to_create, run, rec_pc, records, batch_data,
                   notRecVars>>

\* the end of the creation loop
EnsureFieldsExistReturn ==
    /\ rec_pc = "create"
    /\ create_i > Len(fields_to_create)
    /\ rec_pc' = "done"
    /\ UNCHANGED <<table_fields, field_definitions, fields_to_create, create_i, run,
                   create_requests, requests_ok, create_log, records, batch_data,
                   notRecVars>>

\* ensure_fields_exist is called again with the same field_definitions
EnsureFieldsExistAgain ==
    /\ rec_pc = "done"
    /\ run = 1
    /\ run' = 2
    /\ rec_pc' = "start"
    /\ UNCHANGED <<table_fields, field_definitions, fields_to_create, create_i,
                   create_requests, requests_ok, create_log, records, batch_data,
                   notRecVars>>

RECURSIVE MappedFields(_, _, _)
\* mapped_fields of one record, from the entries left and the dict built so
\* far: a key that is a field of the table is set under its own name, a key
\* that is one ignoring case under the table's name, and any other key is left
\* out.  Tables hold no two names equal ignoring case, so field_mapping has
\* one entry for each.
MappedFields(record_fields, mapped_fields, existing_fields) ==
    IF record_fields = <<>> THEN mapped_fields
    ELSE
    LET key == record_fields[1][1]
        value == record_fields[1][2]
        field_mapping(lower) == CHOOSE f \in existing_fields : Lower(f) = lower
    IN  IF key \in existing_fields
        THEN MappedFields(Tail(record_fields), PutField(mapped_fields, key, value),
                          existing_fields)
        ELSE IF Lower(key) \in {Lower(f) : f \in existing_fields}
        THEN MappedFields(Tail(record_fields),
                          PutField(mapped_fields, field_mapping(Lower(key)), value),
                          existing_fields)
        ELSE MappedFields(Tail(record_fields), mapped_fields, existing_fields)

\* the records handed to the load: one with a value for every desired field,
\* and one with a single field, which may be none of them
RecordsToLoad(definitions) ==
    {<<[k \in 1..Len(definitions) |-> <<definitions[k], k>>], <<<<name, 0>>>>>> :
        name \in {N_id, N_no}}

\* batch_create_records after ensure_fields_exist, up to the batch_create call
\* of its one batch: the table's fields are read once (an unreadable schema
\* reads as no field), and the records with a mapped field make batch_data
BatchCreateRecords ==
    /\ rec_pc = "done"
    /\ \E schema_read \in BOOLEAN, rs \in RecordsToLoad(field_definitions) :
          LET existing_fields == IF schema_read THEN table_fields ELSE {}
              mapped == [k \in 1..Len(rs) |-> MappedFields(rs[k], <<>>, existing_fields)]
          IN  /\ records' = rs
              /\ batch_data' = SelectSeq(mapped, LAMBDA mapped_fields : mapped_fields # <<>>)
    /\ rec_pc' = "loaded"
    /\ UNCHANGED <<table_fields, field_definitions, fields_to_create, create_i, run,
                   create_requests, requests_ok, create_log, notRecVars>>

----------------------------------------------------------------------------
(* main, sync_module, sync_module_recursive, get_all_records and            *)
(* batch_create_records.  Records are counted, not held: record k of a      *)
(* module is the k-th record fetched, and the destination record created    *)
(* from it is named k too.                                                  *)

\* batch_size of batch_create_records
BatchSize == 10
\* the most module numbers the user enters
MaxSelect == 2
\* the most pages the source holds for a module
MaxPages == 2

\* the modules get_modules returns
AllModules == <<"Accounts", "Users">>
\* the numbers of records a page holds
PageCounts == {0, 1, BatchSize + 1}
\* the numbers of fields ensure_fields_exist finds missing
NewFieldCounts == {0, 2}
\* what clear_table finds: no record (or a listing that raises), two batches
\* of records, or two batches the second of which cannot be deleted
DeleteOutcomes == {"none", "two", "failed"}

\* the outcomes of a call to the source: once the token is refused, it stays so
SourceOutcomes == IF auth_failed THEN {"auth"} ELSE {"ok", "auth", "error"}

MainIdle ==
    /\ main_pc = "idle" /\ modules = <<>> /\ modules_to_sync = <<>> /\ clear = FALSE
    /\ module_i = 0 /\ total_synced = 0 /\ synced = 0 /\ synced_modules = {}
    /\ tables = {} /\ has_field_definitions = FALSE /\ page = 0 /\ all_records = 0
    /\ unmapped = {} /\ batch_start = 0 /\ created_records = 0 /\ batch_log = <<>>
    /\ exit_path = "" /\ auth_failed = FALSE /\ after_auth_failure = {}
    /\ sync_runs = [m \in {} |-> 0]
    /\ calls = <<>> /\ pages = <<>> /\ created = <<>>
    /\ id_mapping = [m \in {} |-> <<>>]

InitMain ==
    /\ main_pc = "get_modules"
    /\ modules = <<>> /\ modules_to_sync = <<>> /\ clear = FALSE
    /\ module_i = 0 /\ total_synced = 0 /\ synced = 0 /\ synced_modules = {}
    /\ tables \in SUBSET {AllModules[k] : k \in 1..Len(AllModules)}
    /\ has_field_definitions = FALSE /\ page = 0 /\ all_records = 0
    /\ unmapped = {} /\ batch_start = 0 /\ created_records = 0 /\ batch_log = <<>>
    /\ exit_path = "" /\ auth_failed = FALSE /\ after_auth_failure = {}
    /\ sync_runs = [m \in {AllModules[k] : k \in 1..Len(AllModules)} |-> 0]
    /\ calls = <<>> /\ pages = <<>> /\ created = <<>>
    /\ id_mapping = [m \in {AllModules[k] : k \in 1..Len(AllModules)} |-> <<>>]

\* what happened after the source refused the token
NoteAfterAuthFailure(events) ==
    after_auth_failure' = IF auth_failed THEN after_auth_failure \cup events
                          ELSE after_auth_failure
NoteSourceOutcome(outcome) == auth_failed' = (auth_failed \/ outcome = "auth")

\* main up to `modules = zoho_client.get_modules()`: an HTTP error is raised to
\* main's handler, which exits; no module exits too
GetModules ==
    /\ main_pc = "get_modules"
    /\ \E outcome \in SourceOutcomes, found \in {<<>>, AllModules} :
          /\ NoteSourceOutcome(outcome)
          /\ IF outcome = "ok" /\ found # <<>>
             THEN modules' = found /\ main_pc' = "select"
             ELSE modules' = <<>> /\ main_pc' = "exit"
    /\ UNCHANGED <<modules_to_sync, clear, module_i, total_synced, synced, synced_modules,
                   tables, has_field_definitions, page, all_records, unmapped, batch_start,
                   created_records, batch_log, exit_path, after_auth_failure, sync_runs,
                   calls, pages, created, id_mapping, notMainVars>>

RECURSIVE SelectedModules(_, _)
\* the loop over the numbers entered: a number outside 1..len(modules) is ignored
SelectedModules(indices, mods) ==
    IF indices = <<>> THEN <<>>
    ELSE (IF Head(indices) - 1 >= 0 /\ Head(indices) - 1 < Len(mods)
          THEN <<mods[Head(indices)]>> ELSE <<>>)
         \o SelectedModules(Tail(indices), mods)

\* the two prompts: all modules, or the modules numbered, and whether to clear
SelectModules ==
    /\ main_pc = "select"
    /\ \E choice \in {"1", "2", "other"},
          indices \in UNION {[1..k -> 1..(Len(modules) + 1)] : k \in 0..MaxSelect},
          answer \in BOOLEAN :
          LET chosen == CASE choice = "1" -> modules
                          [] choice = "2" -> SelectedModules(indices, modules)
                          [] OTHER -> <<>>
          IN  /\ modules_to_sync' = chosen
              /\ IF chosen = <<>>
                 THEN main_pc' = "exit" /\ clear' = FALSE
                 ELSE main_pc' = "loop" /\ clear' = answer
    /\ module_i' = 1
    /\ UNCHANGED <<modules, total_synced, synced, synced_modules, tables,
                   has_field_definitions, page, all_records, unmapped, batch_start,
                   created_records, batch_log, exit_path, auth_failed, after_auth_failure,
                   sync_runs, calls, pages, created, id_mapping, notMainVars>>

\* the module of the current iteration of `for module_name in modules_to_sync`
CurrentModule == modules_to_sync[module_i]

\* sync_module_recursive returns value to sync_module, which returns it to
\* main: total_synced += synced, and the loop goes on
ReturnToMain(value, path) ==
    /\ synced' = value
    /\ total_synced' = total_synced + value
    /\ module_i' = module_i + 1
    /\ exit_path' = path
    /\ main_pc' = "loop"

\* sync_module: a new synced_modules set, then sync_module_recursive up to its
\* try block.  calls lists the requests and delays of this run in order.
SyncModule ==
    /\ main_pc = "loop"
    /\ module_i <= Len(modules_to_sync)
    /\ synced_modules' = {}
    /\ IF CurrentModule \in synced_modules'
       THEN /\ ReturnToMain(0, "already synced")
            /\ UNCHANGED <<sync_runs, after_auth_failure>>
       ELSE /\ main_pc' = "table"
            /\ sync_runs' = [sync_runs EXCEPT ![CurrentModule] = @ + 1]
            /\ NoteAfterAuthFailure({"sync"})
            /\ UNCHANGED <<synced, total_synced, module_i, exit_path>>
    /\ has_field_definitions' = FALSE /\ page' = 0 /\ all_records' = 0
    /\ unmapped' = {} /\ batch_start' = 0 /\ created_records' = 0 /\ batch_log' = <<>>
    /\ calls' = <<>> /\ pages' = <<>> /\ created' = <<>>
    /\ UNCHANGED <<modules, modules_to_sync, clear, tables, auth_failed, id_mapping,
                   notMainVars>>

\* main's summary, after the last module
Summary ==
    /\ main_pc = "loop"
    /\ module_i > Len(modules_to_sync)
    /\ main_pc' = "done"
    /\ UNCHANGED <<modules, modules_to_sync, clear, module_i, total_synced, synced,
                   synced_modules, tables, has_field_definitions, page, all_records,
                   unmapped, batch_start, created_records, batch_log, exit_path,
                   auth_failed, after_auth_failure, sync_runs, calls, pages, created,
                   id_mapping, notMainVars>>

\* a table that is there or was created lets the run go on; the run ends here
\* with everything after it skipped
AfterCreateTableGoesOn(table_ready) == "fields"
\* `if not airtable_client.create_table(...): return 0` (lines 848-853)
AfterCreateTable(table_ready) == IF table_ready THEN "fields" ELSE "return"

\* table_exists, and create_table when it answers no (an unreadable schema
\* reads as no table); a table that cannot be created ends the module
EnsureTable ==
    /\ main_pc = "table"
    /\ \E schema_read \in BOOLEAN, table_created \in BOOLEAN :
          LET exists == schema_read /\ CurrentModule \in tables
              made == table_created /\ CurrentModule \notin tables
          IN  IF exists
              THEN /\ main_pc' = "fields"
                   /\ calls' = calls \o <<"table_exists">>
                   /\ UNCHANGED <<tables, after_auth_failure, synced, total_synced,
                                  module_i, exit_path>>
              ELSE /\ NoteAfterAuthFailure({"write"})
                   /\ calls' = calls \o <<"table_exists",
                                          IF made THEN "create_table"
                                          ELSE "create_table_failed">>
                   /\ tables' = IF made THEN tables \cup {CurrentModule} ELSE tables
                   /\ IF AfterCreateTable(made) = "fields"
                      THEN /\ main_pc' = "fields"
                           /\ UNCHANGED <<synced, total_synced, module_i, exit_path>>
                      ELSE ReturnToMain(0, "no table")
    /\ UNCHANGED <<modules, modules_to_sync, clear, synced_modules, has_field_definitions,
                   page, all_records, unmapped, batch_start, created_records, batch_log,
                   auth_failed, sync_runs, pages, created, id_mapping, notMainVars>>

\* a failed fetch of the field definitions leaves get_module_fields as an
\* exception
get_module_fields_raises(outcome, fields) == IF outcome = "ok" THEN fields ELSE "raise"
\* get_module_fields: every exception is caught and reads as no field
get_module_fields(outcome, fields) == IF outcome = "ok" THEN fields ELSE "none"

\* get_module_fields and the loop that builds field_type_map: a failed fetch
\* reads as no field; a descriptor map_zoho_type_to_airtable raises on ends
\* the module in the handler of sync_module_recursive
FetchFields ==
    /\ main_pc = "fields"
    /\ \E outcome \in SourceOutcomes,
          fields \in {"none", "some", "malformed"} :
          LET zoho_fields == get_module_fields(outcome, fields)
          IN  /\ NoteSourceOutcome(outcome)
              /\ calls' = Append(calls, IF outcome = "ok" THEN "get_module_fields"
                                        ELSE "get_module_fields_failed")
              /\ IF zoho_fields \in {"malformed", "raise"}
                 THEN /\ ReturnToMain(0, "except")
                      /\ UNCHANGED <<has_field_definitions, page>>
                 ELSE /\ has_field_definitions' = (zoho_fields = "some")
                      /\ page' = 1
                      /\ main_pc' = "records"
                      /\ UNCHANGED <<synced, total_synced, module_i, exit_path>>
    /\ UNCHANGED <<modules, modules_to_sync, clear, synced_modules, tables, all_records,
                   unmapped, batch_start, created_records, batch_log, after_auth_failure,
                   sync_runs, pages, created, id_mapping, notMainVars>>

\* what follows the loop of get_all_records once it is left with any record
\* or none: the conversion
AfterFetchAlwaysConverts(count) == "convert"
\* what follows the loop of get_all_records: no record ends the module
AfterFetch(count) == IF count = 0 THEN "no records" ELSE "convert"

\* an error on a page leaves get_all_records as an exception
PageErrorRaised(count) == "except"
\* the except clauses of the loop of get_all_records (lines 234-245): break,
\* and the records fetched so far are returned
PageErrorHandled(count) == AfterFetch(count)

\* get_users, called for the Users module in place of the loop over pages:
\* one request, no delay; an HTTP error reads as no user, any other exception
\* leaves get_all_records
GetUsers(outcome, count, http_error) ==
    IF outcome = "ok"
    THEN [all |-> count, page |-> page, pages |-> pages,
          calls |-> <<"get_users">>, next |-> AfterFetch(count)]
    ELSE IF outcome = "auth" \/ http_error
    THEN [all |-> 0, page |-> page, pages |-> pages,
          calls |-> <<"get_users_failed">>, next |-> AfterFetch(0)]
    ELSE [all |-> 0, page |-> page, pages |-> pages,
          calls |-> <<"get_users_raised">>, next |-> "except"]

\* the page is requested and kept, and the loop ends whatever the page reports
GetPageOnce(outcome, count, more) ==
    [all |-> all_records + count, page |-> page + 1,
     pages |-> Append(pages, [page |-> page, count |-> count, more |-> more,
                              ok |-> outcome = "ok"]),
     calls |-> <<"get_records", "sleep">>,
     next |-> AfterFetch(all_records + count)]
\* one iteration of the loop of get_all_records: a page with records is kept
\* and its more_records flag followed; an empty page or an error ends the loop
GetPage(outcome, count, more) ==
    IF outcome = "ok" /\ count > 0
    THEN [all |-> all_records + count, page |-> page + 1,
          pages |-> Append(pages, [page |-> page, count |-> count, more |-> more,
                                   ok |-> TRUE]),
          calls |-> <<"get_records", "sleep">>,
          next |-> IF more THEN "records" ELSE AfterFetch(all_records + count)]
    ELSE IF outcome = "ok"
    THEN [all |-> all_records, page |-> page,
          pages |-> Append(pages, [page |-> page, count |-> 0, more |-> more,
                                   ok |-> TRUE]),
          calls |-> <<"get_records", "sleep">>,
          next |-> AfterFetch(all_records)]
    ELSE [all |-> all_records, page |-> page,
          pages |-> Append(pages, [page |-> page, count |-> 0, more |-> FALSE,
                                   ok |-> FALSE]),
          calls |-> <<"get_records_failed">>,
          next |-> PageErrorHandled(all_records)]

\* get_all_records, one request at a time; the source holds MaxPages pages at
\* most, so its last page reports no more records
FetchPage ==
    /\ main_pc = "records"
    /\ \E outcome \in SourceOutcomes, count \in PageCounts, more \in BOOLEAN,
          http_error \in BOOLEAN :
          LET got == IF CurrentModule = "Users"
                     THEN GetUsers(outcome, count, http_error)
                     ELSE GetPage(outcome, count, more)
          IN  /\ more => page < MaxPages
              /\ NoteSourceOutcome(outcome)
              /\ all_records' = got.all
              /\ page' = got.page
              /\ pages' = got.pages
              /\ calls' = calls \o got.calls
              /\ IF got.next = "except"
                 THEN ReturnToMain(0, "except")
                 ELSE /\ main_pc' = got.next
                      /\ UNCHANGED <<synced, total_synced, module_i, exit_path>>
    /\ UNCHANGED <<modules, modules_to_sync, clear, synced_modules, tables,
                   has_field_definitions, unmapped, batch_start, created_records,
                   batch_log, after_auth_failure, sync_runs, created, id_mapping,
                   notMainVars>>

\* `if not zoho_records`: the module is marked synced and 0 is returned
NoRecords ==
    /\ main_pc = "no records"
    /\ synced_modules' = synced_modules \cup {CurrentModule}
    /\ ReturnToMain(0, "no records")
    /\ UNCHANGED <<modules, modules_to_sync, clear, tables, has_field_definitions, page,
                   all_records, unmapped, batch_start, created_records, batch_log,
                   auth_failed, after_auth_failure, sync_runs, calls, pages, created,
                   id_mapping, notMainVars>>

\* the records none of whose fields will match a field of the table
UnmappedChoices(count) == {{}, {1}, 1..count}

\* convert_zoho_to_airtable on the records fetched: it returns a record for
\* each, or raises into the handler of sync_module_recursive
Convert ==
    /\ main_pc = "convert"
    /\ \E raises \in BOOLEAN, without_fields \in UnmappedChoices(all_records) :
          IF raises
          THEN /\ ReturnToMain(0, "except")
               /\ UNCHANGED unmapped
          ELSE /\ unmapped' = without_fields
               /\ main_pc' = "ensure"
               /\ UNCHANGED <<synced, total_synced, module_i, exit_path>>
    /\ calls' = Append(calls, "convert")
    /\ UNCHANGED <<modules, modules_to_sync, clear, synced_modules, tables,
                   has_field_definitions, page, all_records, batch_start, created_records,
                   batch_log, auth_failed, after_auth_failure, sync_runs, pages, created,
                   id_mapping, notMainVars>>

RECURSIVE Repeat(_, _)
\* the requests and delays of a loop that runs n times
Repeat(steps, n) == IF n = 0 THEN <<>> ELSE steps \o Repeat(steps, n - 1)

\* `if field_definitions: ensure_fields_exist(...)`: the table's fields are
\* read, and each missing field is posted and followed by sleep(0.15)
EnsureFields ==
    /\ main_pc = "ensure"
    /\ \E missing \in NewFieldCounts :
          IF has_field_definitions
          THEN /\ NoteAfterAuthFailure(IF missing > 0 THEN {"write"} ELSE {})
               /\ calls' = calls \o <<"ensure_fields_exist">>
                                 \o Repeat(<<"create_field", "sleep">>, missing)
          ELSE UNCHANGED <<after_auth_failure, calls>>
    /\ main_pc' = "clear"
    /\ UNCHANGED <<modules, modules_to_sync, clear, module_i, total_synced, synced,
                   synced_modules, tables, has_field_definitions, page, all_records,
                   unmapped, batch_start, created_records, batch_log, exit_path,
                   auth_failed, sync_runs, pages, created, id_mapping, notMainVars>>

\* create_or_get_table: table_exists, and when it answers no (the schema is
\* unreadable: the table is there by now) create_table, which fails, and
\* sleep(1)
CreateOrGetTable(schema_read) ==
    IF schema_read THEN <<"table_exists">>
    ELSE <<"table_exists", "create_table_failed", "sleep">>

\* the loop of clear_table: batch_delete and sleep(0.2) for each ten records;
\* an exception ends clear_table
BatchDeletes(found) ==
    CASE found = "two" -> <<"batch_delete", "sleep", "batch_delete", "sleep">>
      [] found = "failed" -> <<"batch_delete", "sleep", "batch_delete_failed">>
      [] OTHER -> <<>>

\* `if clear_existing: clear_table(...)`, which deletes the table's records in
\* batches and swallows every exception; then batch_create_records up to its
\* loop: get_existing_fields and create_or_get_table
ClearTable ==
    /\ main_pc = "clear"
    /\ \E schema_read \in BOOLEAN, found \in DeleteOutcomes, schema_read_again \in BOOLEAN :
          LET clearing == IF clear
                          THEN <<"clear_table">> \o CreateOrGetTable(schema_read)
                                                 \o BatchDeletes(found)
                          ELSE <<>>
              loading == <<"get_existing_fields">> \o CreateOrGetTable(schema_read_again)
              writes == \E i \in 1..Len(clearing \o loading) :
                           (clearing \o loading)[i] \in {"create_table_failed",
                                                         "batch_delete",
                                                         "batch_delete_failed"}
          IN  /\ calls' = calls \o clearing \o loading
              /\ NoteAfterAuthFailure(IF writes THEN {"write"} ELSE {})
    /\ batch_start' = 0
    /\ created_records' = 0
    /\ main_pc' = "load"
    /\ UNCHANGED <<modules, modules_to_sync, clear, module_i, total_synced, synced,
                   synced_modules, tables, has_field_definitions, page, all_records,
                   unmapped, batch_log, exit_path, auth_failed, sync_runs, pages, created,
                   id_mapping, notMainVars>>

\* the except clause of the batch loop abandons the load: the exception leaves
\* batch_create_records
BatchErrorRaised(count) == [pc |-> "except", created |-> count]
\* the except clause of the batch loop (lines 641-677): the error is printed
\* and the loop goes on with the next batch
BatchErrorHandled(count) == [pc |-> "load", created |-> count]

\* every record after record `start` that has a mapped field, in one call
BatchDataUnsliced(start) ==
    {k \in (start + 1)..all_records : k \notin unmapped}
\* the records of the batch starting after record `start` that have a mapped field
BatchData(start) ==
    {k \in (start + 1)..(start + BatchSize) : k <= all_records /\ k \notin unmapped}

RECURSIVE InOrder(_)
\* batch_data is appended to in the order of the batch
InOrder(batch) ==
    IF batch = {} THEN <<>>
    ELSE LET first == CHOOSE k \in batch : \A other \in batch : k <= other
         IN  <<first>> \o InOrder(batch \ {first})

\* lines 630-637: result number idx is filed under the id of source record
\* batch_start + idx, if there is such a record
IdMapping(start, result) ==
    [z \in {start + idx : idx \in 1..Len(result)} \cap 1..all_records
        |-> result[z - start]]

\* one iteration of `for i in range(0, len(records), batch_size)`: the batch's
\* records with a mapped field are sent in one batch_create call, which creates
\* them all or raises; sleep(0.2) ends the try block
BatchCreate ==
    /\ main_pc = "load"
    /\ batch_start < all_records
    /\ \E call_ok \in BOOLEAN :
          LET data == InOrder(BatchData(batch_start))
              sent == Len(data)
              ok == call_ok \/ sent = 0
              after == IF ok THEN [pc |-> "load", created |-> created_records + sent]
                       ELSE BatchErrorHandled(created_records)
          IN  /\ batch_log' = Append(batch_log,
                                     [start |-> batch_start, sent |-> sent, ok |-> ok,
                                      data |-> data])
              /\ created_records' = after.created
              /\ created' = IF ok THEN created \o data ELSE created
              /\ id_mapping' = IF ok /\ sent > 0
                               THEN [id_mapping EXCEPT ![CurrentModule] =
                                        IdMapping(batch_start, data) @@ @]
                               ELSE id_mapping
              /\ calls' = calls \o (IF sent = 0 THEN <<"sleep">>
                                    ELSE IF ok THEN <<"batch_create", "sleep">>
                                    ELSE <<"batch_create_failed">>)
              /\ NoteAfterAuthFailure(IF sent > 0 THEN {"write"} ELSE {})
              /\ IF after.pc = "load"
                 THEN /\ main_pc' = "load"
                      /\ batch_start' = batch_start + BatchSize
                      /\ UNCHANGED <<synced, total_synced, module_i, exit_path>>
                 ELSE /\ ReturnToMain(0, "except")
                      /\ UNCHANGED batch_start
    /\ UNCHANGED <<modules, modules_to_sync, clear, synced_modules, tables,
                   has_field_definitions, page, all_records, unmapped, auth_failed,
                   sync_runs, pages, notMainVars>>

\* batch_create_records returns created_records; the module is marked synced
\* and len(created) is returned
SyncReturn ==
    /\ main_pc = "load"
    /\ batch_start >= all_records
    /\ synced_modules' = synced_modules \cup {CurrentModule}
    /\ ReturnToMain(created_records, "return")
    /\ UNCHANGED <<modules, modules_to_sync, clear, tables, has_field_definitions, page,
                   all_records, unmapped, batch_start, created_records, batch_log,
                   auth_failed, after_auth_failure, sync_runs, calls, pages, created,
                   id_mapping, notMainVars>>

----------------------------------------------------------------------------
(* Specifications *)

InitSpecMap == InitMap /\ ConvIdle /\ RecIdle /\ MainIdle
NextMap == MapZohoTypeToAirtable
SpecMap == InitSpecMap /\ [][NextMap]_vars

InitSpecConvert == InitConvert /\ MapIdle /\ RecIdle /\ MainIdle
NextConvert == ConvertNextRecord \/ ConvertReturn
SpecConvert == InitSpecConvert /\ [][NextConvert]_vars

InitSpecReconcile == InitReconcile /\ MapIdle /\ ConvIdle /\ MainIdle
NextReconcile ==
    \/ EnsureFieldsExist
    \/ CreateFieldIfNotExists
    \/ EnsureFieldsExistReturn
    \/ EnsureFieldsExistAgain
    \/ BatchCreateRecords
SpecReconcile == InitSpecReconcile /\ [][NextReconcile]_vars

Init == InitMain /\ MapIdle /\ ConvIdle /\ RecIdle
Next ==
    \/ GetModules
    \/ SelectModules
    \/ SyncModule
    \/ Summary
    \/ EnsureTable
    \/ FetchFields
    \/ FetchPage
    \/ NoRecords
    \/ Convert
    \/ EnsureFields
    \/ ClearTable
    \/ BatchCreate
    \/ SyncReturn
Spec == Init /\ [][Next]_vars

\* one call sync_module(zoho_client, airtable_client, module_name, clear):
\* main's loop at its only module
InitSyncModule ==
    /\ main_pc = "loop"
    /\ modules = AllModules
    /\ \E k \in 1..Len(AllModules) : modules_to_sync = <<AllModules[k]>>
    /\ clear \in BOOLEAN
    /\ module_i = 1 /\ total_synced = 0 /\ synced = 0 /\ synced_modules = {}
    /\ tables \in SUBSET {AllModules[k] : k \in 1..Len(AllModules)}
    /\ has_field_definitions = FALSE /\ page = 0 /\ all_records = 0
    /\ unmapped = {} /\ batch_start = 0 /\ created_records = 0 /\ batch_log = <<>>
    /\ exit_path = "" /\ auth_failed = FALSE /\ after_auth_failure = {}
    /\ sync_runs = [m \in {AllModules[k] : k \in 1..Len(AllModules)} |-> 0]
    /\ calls = <<>> /\ pages = <<>> /\ created = <<>>
    /\ id_mapping = [m \in {AllModules[k] : k \in 1..Len(AllModules)} |-> <<>>]

InitSpecSyncModule == InitSyncModule /\ MapIdle /\ ConvIdle /\ RecIdle
NextSyncModule ==
    \/ SyncModule
    \/ EnsureTable
    \/ FetchFields
    \/ FetchPage
    \/ NoRecords
    \/ Convert
    \/ EnsureFields
    \/ ClearTable
    \/ BatchCreate
    \/ SyncReturn
SpecSyncModule == InitSpecSyncModule /\ [][NextSyncModule]_vars

----------------------------------------------------------------------------
(* Claims about convert_zoho_to_airtable (SpecConvert) *)

\* C1: convert_zoho_to_airtable never raises, whatever the shapes of the field
\* values, and returns one converted record for each input record.
C1_ConvertNeverRaises ==
    /\ conv_pc # "raised"
    /\ conv_pc = "returned" => Len(airtable_records) = Len(zoho_records)

\* C2: every value stored in a converted record is a string or a number; no
\* null, boolean, object or list survives conversion.
C2_OnlyStringsAndNumbers ==
    \A i \in 1..Len(airtable_records) :
        \A j \in 1..Len(airtable_records[i]) :
            airtable_records[i][j][2].tag \in {"str", "int", "float"}

----------------------------------------------------------------------------
(* Claims about map_zoho_type_to_airtable (SpecMap) *)

\* a and b are the same string up to the case of their letters
EqualsIgnoringCase(a, b) ==
    /\ Len(a) = Len(b)
    /\ \A i \in 1..Len(a) :
          \/ a[i] = b[i]
          \/ \E l \in 1..26 : {a[i], b[i]} = {UpperCaseLetters[l], LowerCaseLetters[l]}

Row(names, cfg, exact) == [names |-> names, config |-> cfg, exact |-> exact]
\* the known-type table; for the select types the row fixes the type alone
KnownTypeTable ==
    {Row({S_text, S_lookup, S_ownerlookup, S_userlookup, S_boolean},
         ConfigOf("singleLineText"), TRUE),
     Row({S_textarea, S_fileupload, S_profileimage}, ConfigOf("multilineText"), TRUE),
     Row({S_email}, ConfigOf("email"), TRUE),
     Row({S_phone}, ConfigOf("phoneNumber"), TRUE),
     Row({S_website}, ConfigOf("url"), TRUE),
     Row({S_picklist}, ConfigOf("singleSelect"), FALSE),
     Row({S_multiselectpicklist}, ConfigOf("multipleSelects"), FALSE),
     Row({S_integer, S_bigint},
         ConfigWith("number", Dict(<<"precision">>, <<IntV(0)>>)), TRUE),
     Row({S_double}, ConfigWith("number", Dict(<<"precision">>, <<IntV(2)>>)), TRUE),
     Row({S_currency},
         ConfigWith("currency", Dict(<<"precision", "symbol">>, <<IntV(2), Str(<<"$">>)>>)),
         TRUE),
     Row({S_date},
         ConfigWith("date",
             Dict(<<"dateFormat">>,
                  <<Dict(<<"name", "format">>, <<Str(S_iso), Str(S_ymd)>>)>>)),
         TRUE),
     Row({S_datetime},
         ConfigWith("dateTime",
             Dict(<<"dateFormat", "timeFormat", "timeZone">>,
                  <<Dict(<<"name", "format">>, <<Str(S_iso), Str(S_ymd)>>),
                    Dict(<<"name", "format">>, <<Str(S_hour24), Str(S_hhmm)>>),
                    Str(S_utc)>>)),
         TRUE)}

DataTypeOf(field) == Get(field, "data_type", Null)

\* C8: for a data_type string, compared ignoring case, the spec returned is the
\* row of the known-type table (type and options; the type, with a choices
\* option, for the select types), and exactly {type: singleLineText} for a
\* string no row names.
C8_KnownTypeTable ==
    (map_pc = "returned" /\ DataTypeOf(zoho_field).tag = "str") =>
        LET rows == {r \in KnownTypeTable :
                        \E nm \in r.names : EqualsIgnoringCase(DataTypeOf(zoho_field).s, nm)}
        IN  IF rows = {} THEN field_config = ConfigOf("singleLineText")
            ELSE \A r \in rows :
                    /\ field_config.type = r.config.type
                    /\ r.exact => field_config = r.config
                    /\ ~r.exact => field_config.has_options
                                   /\ Has(field_config.options, "choices")

\* a known type written in capitals is mapped to its row
C8_Witness ==
    /\ map_pc = "returned"
    /\ DataTypeOf(zoho_field) = Str(Upper(S_datetime))
    /\ field_config.type = "dateTime"

DestinationTypes ==
    {"singleLineText", "multilineText", "email", "phoneNumber", "url", "singleSelect",
     "multipleSelects", "number", "currency", "date", "dateTime"}

\* C9: map_zoho_type_to_airtable is total: for every descriptor it returns,
\* without raising, a spec whose type is one of the eleven destination types.
C9_MapIsTotal ==
    /\ map_pc # "raised"
    /\ map_pc = "returned" => field_config.type \in DestinationTypes

\* the names of the choices of a select spec
ChoiceNames(config) ==
    LET choices == Get(config.options, "choices", List(<<>>)).kids
    IN  [i \in 1..Len(choices) |-> Get(choices[i], "name", Null)]

RECURSIVE FirstOccurrences(_)
\* seq without the repetitions of its elements, in the order of first occurrence
FirstOccurrences(seq) ==
    IF seq = <<>> THEN <<>>
    ELSE LET init == FirstOccurrences(SubSeq(seq, 1, Len(seq) - 1))
             last == seq[Len(seq)]
         IN  IF \E i \in 1..Len(init) : init[i] = last THEN init ELSE Append(init, last)

\* C10: the choices of a picklist or multiselectpicklist spec are deduplicated
\* and in source order: no two choices carry the same name, and the names are
\* those of the descriptor's choice values in the order of first occurrence.
C10_ChoicesDeduplicatedInSourceOrder ==
    (map_pc = "returned" /\ field_config.type \in {"singleSelect", "multipleSelects"}) =>
        LET names == ChoiceNames(field_config)
            source == ChoiceNames(ConfigWith("",
                          Dict(<<"choices">>, <<List(SelectChoices(zoho_field))>>)))
        IN  /\ \A i, j \in 1..Len(names) : i # j => names[i] # names[j]
            /\ names = FirstOccurrences(source)

----------------------------------------------------------------------------
(* Claims about ensure_fields_exist (SpecReconcile) *)

SecondRunRequests == SelectSeq(create_requests, LAMBDA r : r.run = 2)
FirstRunRequests == SelectSeq(create_requests, LAMBDA r : r.run = 1)

\* C6, as stated: whatever the destination answered to the first run's
\* requests, a second run of ensure_fields_exist with the same desired set
\* issues no create-field request.
C6_SecondRunCreatesNothing == SecondRunRequests = <<>>

\* C6, amended: when every request of the first run succeeded (each schema
\* read, and each create-field request), a second run with the same desired
\* set issues no create-field request, whatever the destination answers to
\* the second run's schema reads.
C6_SecondRunCreatesNothingAfterCleanRun == requests_ok => SecondRunRequests = <<>>

\* a second run that ends without a request, after a first run that created
\* a field
C6_Witness ==
    /\ run = 2 /\ rec_pc = "done" /\ requests_ok
    /\ FirstRunRequests # <<>>
    /\ SecondRunRequests = <<>>

\* C7: no create-field request is issued for a name that equals, ignoring
\* case, a field of the table at the time of the request, and the table never
\* holds two names equal ignoring case, also when the desired set does.
C7_NoCaseVariantCreated ==
    /\ \A i \in 1..Len(create_requests) :
          \A f \in create_requests[i].table :
              ~EqualsIgnoringCase(f, create_requests[i].name)
    /\ \A f, g \in table_fields : EqualsIgnoringCase(f, g) => f = g

\* the desired set holds Id and id: Id was created and id was then found
C7_Witness ==
    /\ rec_pc = "done"
    /\ field_definitions = <<N_Id, N_id>>
    /\ table_fields = {N_Id}
    /\ Len(create_requests) = 1
    /\ create_requests[1].table = {}

----------------------------------------------------------------------------
(* Claims about main and sync_module (Spec, SpecSyncModule) *)

RECURSIVE SentByOkBatches(_)
\* the records sent by the batches of log whose batch_create call succeeded
SentByOkBatches(log) ==
    IF log = <<>> THEN 0
    ELSE (IF Head(log).ok THEN Head(log).sent ELSE 0) + SentByOkBatches(Tail(log))

\* C3: when batch_create raises for a batch, every remaining batch is still
\* attempted, no exception leaves batch_create_records, and sync_module
\* returns the number of records created by the batches that succeeded.
C3_FailedBatchIsSkipped ==
    (main_pc \in {"loop", "done"} /\ batch_log # <<>>) =>
        /\ exit_path = "return"
        /\ {batch_log[j].start : j \in 1..Len(batch_log)}
             = {i \in 0..(all_records - 1) : i % BatchSize = 0}
        /\ synced = SentByOkBatches(batch_log)

\* a batch failed, a later batch succeeded, and its records are counted
C3_Witness ==
    /\ main_pc = "loop"
    /\ \E j, k \in 1..Len(batch_log) :
          j < k /\ ~batch_log[j].ok /\ batch_log[k].ok /\ batch_log[k].sent > 0
    /\ synced > 0

\* C4: within one run of main the sync steps are executed at most once per
\* module name, whatever modules the user selects.
C4_ModuleSyncedAtMostOnce == \A m \in DOMAIN sync_runs : sync_runs[m] <= 1

\* C5: once the source has refused the token, at whatever point of the run,
\* no later module is synced and no further write is issued to the destination.
C5_AuthFailureIsFatal == after_auth_failure = {}

----------------------------------------------------------------------------
(* More claims about map_zoho_type_to_airtable (SpecMap) *)

\* the entries of the descriptor's choice list, none when the list is missing
ChoiceEntries(field) ==
    IF Has(field, "pick_list_values") THEN Get(field, "pick_list_values", Null).kids
    ELSE <<>>
\* an entry that yields a choice value: a bare string, or an object with a
\* display value or an underlying value
YieldsChoice(entry) ==
    \/ entry.tag = "str"
    \/ /\ entry.tag = "dict"
       /\ \E k \in {"display_value", "actual_value"} :
             Has(entry, k) /\ Get(entry, k, Null) \notin {Null, Str(<<>>)}
Placeholder == <<Dict(<<"name">>, <<Str(S_None)>>)>>

----------------------------------------------------------------------------
(* More claims about convert_zoho_to_airtable (SpecConvert) *)

\* the input records converted so far that hold one field, not blacklisted
SingleFieldConverted ==
    {i \in 1..Len(airtable_records) :
        /\ Len(zoho_records[i]) = 1
        /\ zoho_records[i][1][1] \notin
              (IF module_name = "Users"
               THEN {S_offset, S_time_zone, S_Microsoft, S_country_locale} ELSE {})}
SourceKey(i) == zoho_records[i][1][1]
SourceValue(i) == zoho_records[i][1][2]
\* the key without its leading '$' characters
Unprefixed(key) == SubSeq(key, 1 + Cardinality({j \in 1..Len(key) :
                                   \A l \in 1..j : key[l] = "$"}), Len(key))
\* the expected destination type of the key of record i
TypeExpected(i) ==
    IF Unprefixed(SourceKey(i)) \in DOMAIN field_type_map
    THEN field_type_map[Unprefixed(SourceKey(i))].type ELSE "singleLineText"

\* the numerals among the strings drawn, with the numbers they denote
NumeralTable ==
    {<<<<"4", "2", ".", "5">>, FloatV(425, -1)>>,
     <<<<"1", "2">>, IntV(12)>>,
     <<<<"1", "e", "2">>, FloatV(100, 0)>>,
     <<<<"1", "E", "2">>, FloatV(100, 0)>>,
     <<<<"-", "3">>, IntV(-3)>>,
     <<<<".", "5">>, FloatV(5, -1)>>,
     <<<<" ", "7">>, IntV(7)>>}
HasPointOrExponent(cs) == \E j \in 1..Len(cs) : cs[j] \in {".", "e", "E"}

\* C12: a string under a key typed number or currency becomes the number it
\* denotes (an integer when it has no '.' and no exponent marker, else a float)
\* or, if it denotes none, the key is omitted: never a string.  Under any other
\* expected type, or a key absent from the type map, the string is kept as is.
C12_NumericStrings ==
    \A i \in SingleFieldConverted :
        SourceValue(i).tag = "str" =>
            IF TypeExpected(i) \in {"number", "currency"}
            THEN IF \E row \in NumeralTable : row[1] = SourceValue(i).s
                 THEN \E row \in NumeralTable :
                        /\ row[1] = SourceValue(i).s
                        /\ airtable_records[i] = <<<<Unprefixed(SourceKey(i)), row[2]>>>>
                        /\ row[2].tag = IF HasPointOrExponent(row[1]) THEN "float" ELSE "int"
                 ELSE airtable_records[i] = <<>>
            ELSE airtable_records[i] = <<<<Unprefixed(SourceKey(i)), SourceValue(i)>>>>

\* "42.5" under a key typed currency became the float 42.5
C12_Witness ==
    /\ conv_pc = "returned"
    /\ zoho_records = <<<<<<K_Amount, Str(<<"4", "2", ".", "5">>)>>>>>>
    /\ K_Amount \in DOMAIN field_type_map
    /\ field_type_map[K_Amount].type = "currency"
    /\ airtable_records = <<<<<<K_Amount, FloatV(425, -1)>>>>>>

\* the string forms of the numbers drawn
StringFormTable ==
    {<<IntV(42), <<"4", "2">>>>,
     <<IntV(-3), <<"-", "3">>>>,
     <<FloatV(425, -1), <<"4", "2", ".", "5">>>>}

\* C13: a number (not a boolean) under a key typed number or currency is kept
\* as the number; under singleLineText, which is the type of every key absent
\* from the type map, it becomes its string form; under any other type it is
\* kept as the number.
C13_Numbers ==
    \A i \in SingleFieldConverted :
        SourceValue(i).tag \in {"int", "float"} =>
            IF TypeExpected(i) = "singleLineText"
            THEN \E row \in StringFormTable :
                    /\ row[1] = SourceValue(i)
                    /\ airtable_records[i] = <<<<Unprefixed(SourceKey(i)), Str(row[2])>>>>
            ELSE airtable_records[i] = <<<<Unprefixed(SourceKey(i)), SourceValue(i)>>>>

\* the float 42.5 under a key absent from the type map became the string "42.5"
C13_Witness ==
    /\ conv_pc = "returned"
    /\ zoho_records = <<<<<<K_Amount, FloatV(425, -1)>>>>>>
    /\ field_type_map = EmptyTypeMap
    /\ airtable_records = <<<<<<K_Amount, Str(<<"4", "2", ".", "5">>)>>>>>>

\* the keys of the converted record i
ConvertedKeys(i) == {airtable_records[i][j][1] : j \in 1..Len(airtable_records[i])}

Collisions ==
    {i \in 1..Len(airtable_records) :
        /\ Len(zoho_records[i]) = 2
        /\ Unprefixed(zoho_records[i][1][1]) = Unprefixed(zoho_records[i][2][1])}
\* what source field j of record i converts to, taken alone
Alone(i, j) == ConvertRecord(<<zoho_records[i][j]>>, field_type_map, module_name).fields

\* every converted key is a source key without its '$' prefix, and none
\* starts with '$'
KeysAreUnprefixed ==
    \A i \in 1..Len(airtable_records) :
        \A key \in ConvertedKeys(i) :
            /\ key = <<>> \/ key[1] # "$"
            /\ \E j \in 1..Len(zoho_records[i]) :
                  /\ Unprefixed(zoho_records[i][j][1]) = key
                  /\ zoho_records[i][j][1] \in {key, <<"$">> \o key}
\* the end-to-end scenario converts as the specification says
ScenarioConverted ==
    \A i \in 1..Len(airtable_records) :
        (zoho_records[i] = ScenarioRecord /\ field_type_map = ScenarioTypeMap) =>
            airtable_records[i] =
                <<<<K_Account_Name, Str(S_Acme)>>,
                  <<K_Annual_Revenue, IntV(1000000)>>,
                  <<K_locked_for_me, Str(S_Yes)>>>>

ListOfObjects(v) ==
    v.tag = "list" /\ v.kids # <<>> /\ \A k \in 1..Len(v.kids) : v.kids[k].tag = "dict"
\* lists drawn, with the text they are to become
ListTable ==
    {<<List(<<D_A>>), <<"A">>>>,
     <<List(<<D_A, D_B>>), <<"A", ",", " ", "B">>>>,
     <<List(<<D_B, D_A>>), <<"B", ",", " ", "A">>>>,
     <<List(<<D_A, D_IdOnly>>), <<"A", ",", " ", "{", "'", "i", "d", "'", ":", " ", "7", "}">>>>,
     <<List(<<Str(<<"x">>), Str(<<"y">>)>>), <<"x", ",", " ", "y">>>>,
     <<List(<<IntV(1), Bool(TRUE), Null>>), <<"1", ",", " ", "T", "r", "u", "e", ",", " ", "N", "o", "n", "e">>>>}

\* C16: an empty list omits the key; a non-empty list of relationship objects
\* becomes their names joined with ', ' in list order, an object without a
\* name giving its generic string form; a non-empty list of scalars becomes
\* the items' string forms joined with ', ' in list order.  Every non-empty
\* list of objects is converted: none makes the conversion raise.
C16_Lists ==
    /\ \A i \in SingleFieldConverted :
          SourceValue(i).tag = "list" =>
              /\ SourceValue(i).kids = <<>> => airtable_records[i] = <<>>
              /\ \A row \in ListTable :
                    row[1] = SourceValue(i) =>
                        airtable_records[i] = <<<<Unprefixed(SourceKey(i)), Str(row[2])>>>>
    /\ conv_pc = "raised" =>
          LET record == zoho_records[Len(airtable_records) + 1]
          IN  ~(Len(record) = 1 /\ ListOfObjects(record[1][2]))

\* the objects drawn that have no name, with the text they are to become:
\* the id as a string, or else the generic string form
NamelessTable ==
    {<<D_IdOnly, <<"7">>>>,
     <<D_Neither, <<"{", "'", "k", "'", ":", " ", "0", "}">>>>,
     <<Dict(<<>>, <<>>), <<"{", "}">>>>}

\* C17: a relationship object with a name becomes that name, a string; one
\* with an id and no name becomes the id as a string; one with neither becomes
\* its generic string form.
C17_RelationshipObjects ==
    \A i \in SingleFieldConverted :
        SourceValue(i).tag = "dict" =>
            IF Has(SourceValue(i), "name")
            THEN /\ airtable_records[i]
                      = <<<<Unprefixed(SourceKey(i)), Get(SourceValue(i), "name", Null)>>>>
                 /\ Get(SourceValue(i), "name", Null).tag = "str"
            ELSE \E row \in NamelessTable :
                    /\ row[1] = SourceValue(i)
                    /\ airtable_records[i] = <<<<Unprefixed(SourceKey(i)), Str(row[2])>>>>

\* the parts of C16 and C17 that hold: the lists that are converted, and the
\* objects whose name is a string or missing
ConvertedListsAndObjects ==
    /\ \A i \in SingleFieldConverted :
          SourceValue(i).tag = "list" =>
              /\ SourceValue(i).kids = <<>> => airtable_records[i] = <<>>
              /\ \A row \in ListTable :
                    row[1] = SourceValue(i) =>
                        airtable_records[i] = <<<<Unprefixed(SourceKey(i)), Str(row[2])>>>>
    /\ \A i \in SingleFieldConverted :
          (SourceValue(i).tag = "dict"
             /\ Get(SourceValue(i), "name", Str(<<>>)).tag = "str") =>
              IF Has(SourceValue(i), "name")
              THEN airtable_records[i]
                     = <<<<Unprefixed(SourceKey(i)), Get(SourceValue(i), "name", Null)>>>>
              ELSE \E row \in NamelessTable :
                      /\ row[1] = SourceValue(i)
                      /\ airtable_records[i] = <<<<Unprefixed(SourceKey(i)), Str(row[2])>>>>

\* C18: a boolean becomes the string 'Yes' (true) or 'No' (false) whatever the
\* expected type of its key, number and currency included, and whether or not
\* the key is in the type map; it is never emitted as a boolean or a number.
C18_Booleans ==
    \A i \in SingleFieldConverted :
        SourceValue(i).tag = "bool" =>
            airtable_records[i]
              = <<<<Unprefixed(SourceKey(i)),
                    Str(IF SourceValue(i).b THEN <<"Y", "e", "s">> ELSE <<"N", "o">>)>>>>

\* false under a key typed number became 'No'
C18_Witness ==
    /\ conv_pc = "returned"
    /\ zoho_records = <<<<<<K_Amount, Bool(FALSE)>>>>>>
    /\ K_Amount \in DOMAIN field_type_map
    /\ field_type_map[K_Amount].type = "number"
    /\ airtable_records = <<<<<<K_Amount, Str(<<"N", "o">>)>>>>>>

UsersBlacklist == {S_offset, S_time_zone, S_Microsoft, S_country_locale}

\* C19: for module Users a field named offset, time_zone, Microsoft or
\* country_locale is skipped whatever its value and contributes nothing: a
\* record of that one field converts to the empty record, and every converted
\* key comes from a field whose name is not in the blacklist.  For a module
\* without a blacklist the same field is converted like any other.
C19_Blacklist ==
    \A i \in 1..Len(airtable_records) :
        /\ module_name = "Users" =>
              /\ \A key \in ConvertedKeys(i) :
                    \E j \in 1..Len(zoho_records[i]) :
                        /\ Unprefixed(zoho_records[i][j][1]) = key
                        /\ zoho_records[i][j][1] \notin UsersBlacklist
              /\ (\A j \in 1..Len(zoho_records[i]) : zoho_records[i][j][1] \in UsersBlacklist)
                    => airtable_records[i] = <<>>
        /\ (module_name # "Users" /\ Len(zoho_records[i]) = 1
              /\ SourceKey(i) \in UsersBlacklist) =>
              /\ SourceValue(i).tag = "str" =>
                    airtable_records[i] = <<<<SourceKey(i), SourceValue(i)>>>>
              /\ SourceValue(i).tag \in {"bool", "int", "float"} =>
                    /\ Len(airtable_records[i]) = 1
                    /\ airtable_records[i][1][1] = SourceKey(i)

\* for module Users, a record with offset and Amount was converted to a record
\* with Amount alone
C19_Witness ==
    /\ conv_pc = "returned"
    /\ module_name = "Users"
    /\ zoho_records = <<<<<<S_offset, Bool(TRUE)>>, <<K_Amount, IntV(42)>>>>>>
    /\ field_type_map = EmptyTypeMap
    /\ airtable_records = <<<<<<K_Amount, Str(<<"4", "2">>)>>>>>>

----------------------------------------------------------------------------
(* More claims about ensure_fields_exist and the load (SpecReconcile) *)

\* the calls of create_field_if_not_exists made by the current run
CallsOfThisRun == SelectSeq(create_log, LAMBDA c : c.run = run)

\* C20: a create-field request refused as a duplicate or empty name is
\* reported as success, any other refusal or exception as failure;
\* ensure_fields_exist goes on with the remaining fields, so that each field to
\* create gets its call; and in the load that follows every value sent is under
\* a name of the table, a record losing only the values whose key matches no
\* field of the table.
C20_FailedFieldIsDropped ==
    /\ \A k \in 1..Len(create_log) :
          /\ create_log[k].outcome = "DUPLICATE_OR_EMPTY_FIELD_NAME" => create_log[k].returned
          /\ create_log[k].outcome \in {"rejected", "exception"} => ~create_log[k].returned
    /\ rec_pc \in {"done", "loaded"} =>
          [k \in 1..Len(CallsOfThisRun) |-> CallsOfThisRun[k].name] = fields_to_create
    /\ rec_pc = "loaded" =>
          /\ \A b \in 1..Len(batch_data) :
                \A k \in 1..Len(batch_data[b]) : batch_data[b][k][1] \in table_fields
          /\ batch_data # <<>> =>
                \A r \in 1..Len(records) :
                    \A k \in 1..Len(records[r]) :
                        \A f \in table_fields :
                            EqualsIgnoringCase(f, records[r][k][1]) =>
                                \E b \in 1..Len(batch_data) :
                                    \E j \in 1..Len(batch_data[b]) :
                                        /\ batch_data[b][j][1] = f
                                        /\ \E l \in 1..Len(records[r]) :
                                              /\ batch_data[b][j][2] = records[r][l][2]
                                              /\ EqualsIgnoringCase(f, records[r][l][1])

\* the request for Id was refused, the loop went on and created No, and the
\* record loaded was sent with its value for No and without its value for Id
C20_Witness ==
    /\ rec_pc = "loaded"
    /\ field_definitions = <<N_Id, N_No>>
    /\ Len(create_log) = 2
    /\ create_log[1].outcome = "rejected" /\ ~create_log[1].returned
    /\ create_log[2].outcome = "created" /\ create_log[2].returned
    /\ table_fields = {N_No}
    /\ Len(records) = 2
    /\ records[1] = <<<<N_Id, 1>>, <<N_No, 2>>>>
    /\ Len(batch_data) >= 1
    /\ batch_data[1] = <<<<N_No, 2>>>>

----------------------------------------------------------------------------
(* Claims about one run of sync_module_recursive (SpecSyncModule) *)

\* the requests of a run, by kind
SchemaFetches == {"get_module_fields", "get_module_fields_failed"}
RecordFetches == {"get_records", "get_records_failed",
                  "get_users", "get_users_failed", "get_users_raised"}
TableCreations == {"create_table", "create_table_failed"}
CreateFieldCalls == {"create_field"}
Deletes == {"batch_delete", "batch_delete_failed"}
Inserts == {"batch_create", "batch_create_failed"}

\* the positions in calls of the requests of the kinds given
CallsOf(kinds) == {i \in 1..Len(calls) : calls[i] \in kinds}
\* the run of sync_module_recursive has returned to main's loop
Returned == main_pc \in {"loop", "done"} /\ module_i > 1
\* table_exists answered no and create_table failed, at the start of the run
TableNotCreated == Len(calls) >= 2 /\ calls[2] = "create_table_failed"

\* C21: when the table is not there and create_table fails, the run has
\* returned 0 at once: after the failed creation it made no schema fetch, no
\* record fetch, no create-field request, no delete and no insert.
C21_NoTableAborts ==
    TableNotCreated =>
        /\ Returned /\ synced = 0 /\ exit_path = "no table"
        /\ CallsOf(SchemaFetches \cup RecordFetches \cup CreateFieldCalls
                   \cup Deletes \cup Inserts) = {}
        /\ calls = <<"table_exists", "create_table_failed">>

C21_Witness ==
    /\ TableNotCreated /\ Returned /\ exit_path = "no table"
    /\ modules_to_sync[module_i - 1] \notin tables

\* get_all_records has returned an empty list
FetchedNothing ==
    /\ CallsOf(RecordFetches \ {"get_users_raised"}) # {}
    /\ main_pc # "records"
    /\ all_records = 0

\* C22: when get_all_records returns no record, the run returns 0 at once: no
\* field reconciliation and no create-field request, no clearing and no delete
\* (whatever clear_existing is), no load and no insert.
C22_NoRecordsIsDone ==
    FetchedNothing =>
        /\ main_pc = "no records"
           \/ (Returned /\ synced = 0 /\ exit_path = "no records")
        /\ CallsOf(CreateFieldCalls \cup Deletes \cup Inserts
                   \cup {"convert", "ensure_fields_exist", "clear_table",
                         "get_existing_fields"}) = {}

C22_Witness ==
    /\ FetchedNothing /\ Returned /\ exit_path = "no records"
    /\ clear /\ has_field_definitions

\* the step of sync_module_recursive a request belongs to; reading the
\* destination schema (table_exists) and sleeping belong to no step
StepOf(call) ==
    CASE call \in TableCreations -> 1
      [] call \in SchemaFetches -> 2
      [] call \in RecordFetches -> 3
      [] call = "convert" -> 4
      [] call \in {"ensure_fields_exist"} \cup CreateFieldCalls -> 5
      [] call \in {"clear_table"} \cup Deletes -> 6
      [] call \in {"get_existing_fields"} \cup Inserts -> 7
      [] OTHER -> 0

\* C23: the requests of a run come in the order of the steps (table creation,
\* schema fetch, record fetch, conversion, field reconciliation, clearing,
\* loading), each step entered at most once; no table-creation or create-field
\* request follows a delete or an insert; a delete happens only if clear is
\* true; every delete precedes every insert.
C23_StepsInOrder ==
    /\ \A i, j \in 1..Len(calls) :
          (i < j /\ StepOf(calls[i]) # 0 /\ StepOf(calls[j]) # 0)
              => StepOf(calls[i]) <= StepOf(calls[j])
    /\ \A entry \in SchemaFetches \cup {"convert", "ensure_fields_exist", "clear_table",
                                        "get_existing_fields"} :
          Cardinality(CallsOf({entry})) <= 1
    /\ \A i \in CallsOf(Deletes \cup Inserts),
          j \in CallsOf(TableCreations \cup CreateFieldCalls) : j < i
    /\ CallsOf(Deletes) # {} => clear
    /\ \A i \in CallsOf(Deletes), j \in CallsOf(Inserts) : i < j

\* get_module_fields could not fetch the field definitions in this run
SchemaFetchFailed == CallsOf({"get_module_fields_failed"}) # {}

\* C24: a failed fetch of the source field definitions does not end the run.
\* The type map stays empty, under which every key is expected to be
\* singleLineText; the records are fetched next; no field reconciliation and
\* no create-field request is made; and a run that fetched records and
\* converted them goes on to the load and returns from it.
C24_SchemaFailureGoesOn ==
    SchemaFetchFailed =>
        /\ ~has_field_definitions
        /\ \A key \in RecordKeys :
              ExpectedType(EmptyTypeMap, CleanKey(key)) = "singleLineText"
        /\ calls[Len(calls)] = "get_module_fields_failed" => main_pc = "records"
        /\ CallsOf(CreateFieldCalls \cup {"ensure_fields_exist"}) = {}
        /\ Returned => CallsOf(RecordFetches) # {}
        /\ (Returned /\ all_records > 0) => CallsOf({"convert"}) # {}
        /\ (Returned /\ all_records > 0 /\ exit_path # "except") =>
              /\ exit_path = "return"
              /\ CallsOf({"get_existing_fields"}) # {}
              /\ batch_log # <<>>

C24_Witness ==
    /\ SchemaFetchFailed /\ Returned /\ exit_path = "return"
    /\ all_records > BatchSize /\ created_records > 0

RECURSIVE RecordsOf(_)
\* the number of records of the pages given
RecordsOf(fetched) ==
    IF fetched = <<>> THEN 0 ELSE Head(fetched).count + RecordsOf(Tail(fetched))

\* C25: when the fetch of page n fails, no further page is requested, the
\* pages requested were 1..n in order, get_all_records returns (it does not
\* raise) with exactly the records of pages 1..n-1, and the run goes on with
\* them: to the conversion if there is a record, to the no-record return if not.
C25_FailedPageStopsFetch ==
    \A n \in 1..Len(pages) :
        ~pages[n].ok =>
            /\ n = Len(pages)
            /\ main_pc # "records"
            /\ \A i \in 1..n : pages[i].page = i
            /\ all_records = RecordsOf(SubSeq(pages, 1, n - 1))
            /\ all_records > 0 => (main_pc = "convert" \/ CallsOf({"convert"}) # {})
            /\ all_records = 0 =>
                  (main_pc = "no records" \/ (Returned /\ exit_path = "no records"))

C25_Witness ==
    /\ Len(pages) = 2 /\ pages[1].ok /\ ~pages[2].ok
    /\ all_records = BatchSize + 1
    /\ Returned /\ exit_path = "return" /\ synced = BatchSize + 1

\* a delay lies between any two requests of the kinds given
DelayBetween(kinds) ==
    \A i, j \in CallsOf(kinds) :
        i < j => \E k \in (i + 1)..(j - 1) : calls[k] = "sleep"

\* C26: in every run a delay lies between two consecutive page fetches, two
\* consecutive create-field calls, two consecutive batch inserts and two
\* consecutive batch deletes, whether the earlier call succeeded or failed.
C26_DelayAfterEachCall ==
    /\ DelayBetween({"get_records", "get_records_failed"})
    /\ DelayBetween(CreateFieldCalls)
    /\ DelayBetween(Inserts)
    /\ DelayBetween(Deletes)

----------------------------------------------------------------------------
(* Choice names (SpecMap) *)

\* a value that is no name: null or the empty string
NoName == {Null, Str(<<>>)}
\* what an entry is to contribute: its display value if it has one, else its
\* underlying value, else nothing; a bare string stands for itself
Contribution(entry) ==
    IF entry.tag = "dict"
    THEN LET display == Get(entry, "display_value", Null)
             actual == Get(entry, "actual_value", Null)
         IN  IF display \notin NoName THEN <<display>>
             ELSE IF actual \notin NoName THEN <<actual>>
             ELSE <<>>
    ELSE IF entry.tag = "str" /\ entry \notin NoName THEN <<entry>>
    ELSE <<>>

RECURSIVE Contributions(_)
Contributions(entries) ==
    IF entries = <<>> THEN <<>>
    ELSE Contribution(Head(entries)) \o Contributions(Tail(entries))

\* C27: the choices of a select spec are named by what the entries contribute,
\* in order, an entry that yields neither a display value nor an underlying
\* value contributing nothing (the placeholder standing in when nothing is
\* contributed); so no choice has an empty or null name.
C27_ChoiceNames ==
    (map_pc = "returned" /\ field_config.type \in {"singleSelect", "multipleSelects"}) =>
        LET choices == Get(field_config.options, "choices", List(<<>>)).kids
            names == [i \in 1..Len(choices) |-> Get(choices[i], "name", Null)]
            wanted == Contributions(ChoiceEntries(zoho_field))
        IN  /\ \A i \in 1..Len(names) : names[i] \notin NoName
            /\ names = IF wanted = <<>> THEN <<Str(S_None)>> ELSE wanted

----------------------------------------------------------------------------
(* Claims about the load (SpecSyncModule) *)

\* C28: every entry z -> a of id_mapping[module] is correct: destination
\* record a was created from the source record whose id is z (source record k
\* and the destination record made from it are both named k).
C28_IdMappingIsCorrect ==
    \A m \in DOMAIN id_mapping :
        \A z \in DOMAIN id_mapping[m] : id_mapping[m][z] = z

\* the run is of a module whose records come in pages (any but Users)
CurrentModuleIsPaged == CallsOf({"get_users", "get_users_failed", "get_users_raised"}) = {}

\* C29: get_all_records requests pages 1, 2, 3, ... in order, returns the
\* records of every page it was given, goes on to page n+1 whenever page n
\* reported more records, and stops when a page reports no more records.
C29_AllPagesFetched ==
    (CurrentModuleIsPaged /\ pages # <<>> /\ \A n \in 1..Len(pages) : pages[n].ok) =>
        /\ \A n \in 1..Len(pages) : pages[n].page = n
        /\ all_records = RecordsOf(pages)
        /\ \A n \in 1..Len(pages) :
              pages[n].more => (n < Len(pages) \/ main_pc = "records")
        /\ \A n \in 1..Len(pages) :
              ~pages[n].more => (n = Len(pages) /\ main_pc # "records")

\* page n was fetched, held a record and reported more records
LeadsOn(n) == pages[n].ok /\ pages[n].count > 0 /\ pages[n].more

\* C29, amended: get_all_records requests pages 1, 2, 3, ... in order and
\* returns the records of the pages it was given; it goes on to page n+1
\* exactly when page n was fetched, held at least one record and reported
\* more records, and stops at the first page that is empty, reports no more
\* records, or fails.
C29_PagesFetchedUntilEnd ==
    CurrentModuleIsPaged =>
        /\ \A n \in 1..Len(pages) : pages[n].page = n
        /\ all_records = RecordsOf(pages)
        /\ \A n \in 1..Len(pages) :
              LeadsOn(n) <=> (n < Len(pages) \/ main_pc = "records")

C29_Witness ==
    /\ Len(pages) = 2 /\ LeadsOn(1) /\ pages[2].ok /\ ~pages[2].more
    /\ all_records = pages[1].count + pages[2].count
    /\ pages[2].count > 0
    /\ main_pc = "convert"

RECURSIVE SentIn(_)
\* the records passed to batch_create by the calls logged, call after call
SentIn(log) == IF log = <<>> THEN <<>> ELSE Head(log).data \o SentIn(Tail(log))

RECURSIVE ResultsOf(_)
\* the results of the calls logged that succeeded, call after call
ResultsOf(log) ==
    IF log = <<>> THEN <<>>
    ELSE (IF Head(log).ok THEN Head(log).data ELSE <<>>) \o ResultsOf(Tail(log))

\* the load has gone through every batch and returned
Loaded == Returned /\ exit_path = "return"

\* C30: the batches start at records 0, 10, 20, ...; no call carries more than
\* ten records or a record from outside its batch; the records sent, call
\* after call, are in input order with none repeated; once the load is over
\* they are exactly the records that have a matching field; and the list
\* returned is the concatenation of the results of the calls that succeeded.
C30_Batches ==
    LET sent == SentIn(batch_log)
    IN  /\ \A j \in 1..Len(batch_log) :
              /\ batch_log[j].start = (j - 1) * BatchSize
              /\ Len(batch_log[j].data) <= BatchSize
              /\ \A i \in 1..Len(batch_log[j].data) :
                    /\ batch_log[j].data[i] > batch_log[j].start
                    /\ batch_log[j].data[i] <= batch_log[j].start + BatchSize
        /\ \A i, j \in 1..Len(sent) : i < j => sent[i] < sent[j]
        /\ \A i \in 1..Len(sent) : sent[i] \in (1..all_records) \ unmapped
        /\ Loaded => {sent[i] : i \in 1..Len(sent)} = (1..all_records) \ unmapped
        /\ created = ResultsOf(batch_log)
        /\ Loaded => synced = Len(created)

C30_Witness ==
    /\ Loaded
    /\ all_records = 2 * BatchSize + 2 /\ unmapped = {1}
    /\ Len(batch_log) = 3
    /\ batch_log[1].ok /\ ~batch_log[2].ok /\ batch_log[3].ok
    /\ Len(created) = BatchSize + 1

====
